---------------------------- MODULE Spec2Model ----------------------------
(***************************************************************************)
(* OSM PBF reader: the Protocol Buffers wire codec (PB_read_message,       *)
(* PB_get_field, PB_next_field, PB_expand_packed_fields) and the blob      *)
(* framer with its domain decoders (OSM_read_Map, parse_HeaderBlock,       *)
(* parse_PrimitiveBlock).                                                  *)
(*                                                                         *)
(* A FILE* is a pair (data, pos): the bytes of the stream and the read     *)
(* position.  A PB_Message is a heap of PB_Field nodes, circular and       *)
(* doubly linked through next/prev, headed by a sentinel node.             *)
(***************************************************************************)
EXTENDS Integers, Sequences, FiniteSets, TLC

VARIABLES
    mode,      \* which entry point this behaviour exercises: "read", "nav", "expand" or "map"
    \* ---- wire codec ----
    cdata,     \* bytes of the stream handed to PB_read_message
    clen,      \* the len argument of PB_read_message
    cpos,      \* stream position after PB_read_message
    crc,       \* return value of PB_read_message (0 before the call)
    heap,      \* PB_Field nodes of the message under test: node id -> node
    msg,       \* the PB_Message (id of the sentinel node) or NULL
    junk,      \* content of the sentinel's number field, never initialised
    last,      \* the last API call made on the message and what it returned
    pre,       \* field contents (insertion order) before the last API call;
               \* in mode "map" the blobs the input file was built from
    nops,      \* number of PB_expand_packed_fields calls made so far;
               \* in mode "map" the iterations of the framer loop so far
    \* ---- blob framer ----
    in,        \* the input FILE of OSM_read_Map: data, pos, eof flag
    map,       \* the OSM_Map under construction
    status,    \* "idle", "running", "returned_map" or "returned_null"
    blob       \* what the last framer iteration saw and did

vars == <<mode, cdata, clen, cpos, crc, heap, msg, junk, last, pre, nops,
          in, map, status, blob>>

codecVars == <<cdata, clen, cpos, crc, heap, msg, junk, last, pre, nops>>
mapVars == <<in, map, status, blob>>

-----------------------------------------------------------------------------
(* Wire types and the other enumerators of protobuf.h.                     *)

VARINT_TYPE == 0
I64_TYPE == 1
LEN_TYPE == 2
SGROUP_TYPE == 3
EGROUP_TYPE == 4
I32_TYPE == 5
ANY_TYPE == 6
SENTINEL_TYPE == 7
ANY_FIELD == -1
FORWARD_DIR == 0
BACKWARD_DIR == 1

NULL == 0        \* the null pointer; node ids are 1, 2, ...
EOF == -1

\* (uint64_t)(g) << shift for a 7-bit group g, while the result stays below 64 bits.
Shl(g, shift) == IF g = 0 THEN 0 ELSE g * (2 ^ shift)

Min(a, b) == IF a < b THEN a ELSE b

\* fgetc(in): the next byte, or EOF at the end of the data.
fgetc(data, pos) == IF pos < Len(data) THEN data[pos + 1] ELSE EOF

\* The n bytes fread(buf, 1, n, in) delivers from position pos (fewer at the end).
fread(data, pos, n) == SubSeq(data, pos + 1, Min(pos + n, Len(data)))

-----------------------------------------------------------------------------
(* PB_read_tag.  The 32-bit tag is kept as its two parts: low (tag & 7) and  *)
(* high (tag >> 3).  The group of byte k lands at bit 7k of the tag, so byte *)
(* 0 gives low and 4 bits of high, byte k > 0 lands at bit 7k - 3 of high,   *)
(* and of the fifth byte (shift 28) only the 4 bits below bit 32 are kept.   *)

TagHighPart(c, shift) ==
    IF shift = 0 THEN (c % 128) \div 8
    ELSE IF shift = 28 THEN Shl(c % 16, shift - 3)
    ELSE Shl(c % 128, shift - 3)

RECURSIVE PB_read_tag_loop(_, _, _, _, _, _)
PB_read_tag_loop(data, pos, low, high, shift, bytes_read) ==
    LET c == fgetc(data, pos) IN
    IF c = EOF THEN [rc |-> -1, type |-> 0, number |-> 0, pos |-> pos]
    ELSE LET low2 == IF shift = 0 THEN c % 8 ELSE low
             high2 == high + TagHighPart(c, shift)
         IN IF c \div 128 = 0
            THEN IF low2 > 5
                 THEN [rc |-> -1, type |-> low2, number |-> high2, pos |-> pos + 1]
                 ELSE [rc |-> bytes_read + 1, type |-> low2, number |-> high2,
                       pos |-> pos + 1]
            ELSE IF shift + 7 >= 32
                 THEN [rc |-> -1, type |-> 0, number |-> 0, pos |-> pos + 1]
                 ELSE PB_read_tag_loop(data, pos + 1, low2, high2, shift + 7,
                                       bytes_read + 1)

PB_read_tag(data, pos) == PB_read_tag_loop(data, pos, 0, 0, 0, 0)

-----------------------------------------------------------------------------
(* PB_read_value.  A value is a record [i64, buf, size]: i64 for VARINT,     *)
(* buf and size for LEN (the union of the C code, one variant in use).       *)

\* The value of a function of one argument: Bind([r \in {e} |-> ...]) is the
\* code's "r = e; ...".
Bind(f) == f[CHOOSE a \in DOMAIN f : TRUE]

NoValue == [i64 |-> 0, buf |-> <<>>, size |-> 0]

\* The varint loop shared by the VARINT branch and the length of the LEN
\* branch: result, shift and the counter varint_len / len_bytes of the code.
RECURSIVE ReadVarint64(_, _, _, _, _, _)
ReadVarint64(data, pos, result, shift, total_bytes, varint_len) ==
    LET c == fgetc(data, pos) IN
    IF c = EOF THEN [rc |-> -1, val |-> 0, pos |-> pos]
    ELSE LET result2 == result + Shl(c % 128, shift) IN
         IF c \div 128 = 0
         THEN [rc |-> total_bytes + 1, val |-> result2, pos |-> pos + 1]
         ELSE IF shift + 7 >= 64 \/ varint_len > 10
              THEN [rc |-> -1, val |-> 0, pos |-> pos + 1]
              ELSE ReadVarint64(data, pos + 1, result2, shift + 7,
                                total_bytes + 1, varint_len + 1)

PB_read_value(data, pos, type) ==
    IF type = VARINT_TYPE
    THEN Bind([r \in {ReadVarint64(data, pos, 0, 0, 0, 0)} |->
         [rc |-> r.rc, pos |-> r.pos,
          value |-> [i64 |-> r.val, buf |-> <<>>, size |-> 0]]])
    ELSE IF type = LEN_TYPE
    THEN Bind([r \in {ReadVarint64(data, pos, 0, 0, 0, 0)} |->
         IF r.rc < 0 THEN [rc |-> -1, pos |-> r.pos, value |-> NoValue]
         ELSE Bind([bytes \in {fread(data, r.pos, r.val)} |->
              IF Len(bytes) # r.val
              THEN [rc |-> -1, pos |-> r.pos + Len(bytes), value |-> NoValue]
              ELSE [rc |-> r.rc + Len(bytes), pos |-> r.pos + Len(bytes),
                    value |-> [i64 |-> 0, buf |-> bytes, size |-> r.val]]])])
    ELSE [rc |-> -1, pos |-> pos, value |-> NoValue]   \* "Unsupported type"

-----------------------------------------------------------------------------
(* PB_read_field: tag, value, then the look-ahead that reads up to four      *)
(* bytes, ungets them all and skips one byte when the first is 0x07 or 0xFF. *)

PB_read_field(data, pos) ==
    Bind([t \in {PB_read_tag(data, pos)} |->
    IF t.rc <= 0
    THEN [rc |-> -1, pos |-> t.pos, type |-> 0, number |-> 0, value |-> NoValue]
    ELSE Bind([v \in {PB_read_value(data, t.pos, t.type)} |->
         IF v.rc <= 0
         THEN [rc |-> -1, pos |-> v.pos, type |-> t.type, number |-> t.number,
               value |-> NoValue]
         ELSE LET peeked == Min(4, Len(data) - v.pos)
                  skip == peeked > 0 /\ (data[v.pos + 1] = 7 \/ data[v.pos + 1] = 255)
              IN [rc |-> t.rc + v.rc,
                  pos |-> IF skip THEN v.pos + 1 ELSE v.pos,
                  type |-> t.type, number |-> t.number, value |-> v.value]])])

-----------------------------------------------------------------------------
(* The heap of PB_Field nodes.  A heap is a sequence of nodes and a pointer  *)
(* is an index into it; malloc appends.  nfree and bfree count the calls of  *)
(* free() on the node and on its LEN buffer.                                 *)

Node(type, number, value) ==
    [type |-> type, number |-> number, value |-> value,
     next |-> NULL, prev |-> NULL, nfree |-> 0, bfree |-> 0]

\* The sentinel of PB_read_message: type, next and prev are set, the rest is
\* whatever malloc returned (sn stands for the number field).
Sentinel(sn) ==
    [type |-> SENTINEL_TYPE, number |-> sn, value |-> NoValue,
     next |-> 1, prev |-> 1, nfree |-> 0, bfree |-> 0]

\* "Link the new field into the list (insert before the sentinel)."
LinkBeforeSentinel(h, sentinel, new_field) ==
    LET id == Len(h) + 1
        h1 == Append(h, [new_field EXCEPT !.prev = h[sentinel].prev,
                                          !.next = sentinel])
        h2 == [h1 EXCEPT ![h1[sentinel].prev].next = id]
    IN [h2 EXCEPT ![sentinel].prev = id]

NoMessage == [rc |-> -1, heap |-> <<>>, msg |-> NULL, pos |-> 0]

RECURSIVE PB_read_message_loop(_, _, _, _, _)
PB_read_message_loop(data, pos, len, total_read, h) ==
    IF total_read < len
    THEN Bind([f \in {PB_read_field(data, pos)} |->
         IF f.rc <= 0
         THEN [NoMessage EXCEPT !.pos = f.pos]
         ELSE PB_read_message_loop(data, f.pos, len, total_read + f.rc,
                  LinkBeforeSentinel(h, 1, Node(f.type, f.number, f.value)))])
    ELSE IF total_read # len
         THEN [NoMessage EXCEPT !.pos = pos]
         ELSE [rc |-> total_read, heap |-> h, msg |-> 1, pos |-> pos]

\* PB_read_message(in, len, msgp) with in at position pos; sn is the
\* uninitialised number of the sentinel.
PB_read_message(data, pos, len, sn) ==
    IF len = 0
    THEN [rc |-> 0, heap |-> <<>>, msg |-> NULL, pos |-> pos]
    ELSE PB_read_message_loop(data, pos, len, 0, <<Sentinel(sn)>>)

OSMHeaderStr == <<79, 83, 77, 72, 101, 97, 100, 101, 114>>   \* "OSMHeader"
OSMDataStr == <<79, 83, 77, 68, 97, 116, 97>>                \* "OSMData"

\* PB_read_embedded_message(buf, len, msgp): fmemopen(buf, len) gives a stream
\* over the first len bytes of buf.
PB_read_embedded_message(buf, len, sn) ==
    IF len = 0 THEN NoMessage
    ELSE IF len = 9 /\ SubSeq(buf, 1, 9) = OSMHeaderStr THEN NoMessage
    ELSE Bind([r \in {PB_read_message(SubSeq(buf, 1, len), 0, len, sn)} |->
         IF r.rc < 0 \/ r.msg = NULL THEN NoMessage
         ELSE [r EXCEPT !.rc = 0]])

-----------------------------------------------------------------------------
(* Field navigation.                                                        *)

RECURSIVE PB_get_field_loop(_, _, _, _, _)
PB_get_field_loop(h, sentinel, current, fnum, result) ==
    IF current = sentinel THEN result
    ELSE PB_get_field_loop(h, sentinel, h[current].next, fnum,
             IF fnum = ANY_FIELD \/ h[current].number = fnum
             THEN current ELSE result)

\* Variant: the type takes part in the search, so an earlier field of the
\* requested type is returned when the last one has another type.
RECURSIVE PB_get_field_typed_loop(_, _, _, _, _, _)
PB_get_field_typed_loop(h, sentinel, current, fnum, type, result) ==
    IF current = sentinel THEN result
    ELSE PB_get_field_typed_loop(h, sentinel, h[current].next, fnum, type,
             IF (fnum = ANY_FIELD \/ h[current].number = fnum)
                /\ (type = ANY_TYPE \/ h[current].type = type)
             THEN current ELSE result)

PB_get_field_fallback(h, m, fnum, type) ==
    IF m = NULL THEN NULL
    ELSE PB_get_field_typed_loop(h, m, h[m].next, fnum, type, NULL)

PB_get_field(h, m, fnum, type) ==
    IF m = NULL THEN NULL
    ELSE Bind([result \in {PB_get_field_loop(h, m, h[m].next, fnum, NULL)} |->
         IF result = NULL THEN NULL
         ELSE IF type # ANY_TYPE /\ h[result].type # type THEN NULL
         ELSE result])

Step(h, f, dir) == IF dir = FORWARD_DIR THEN h[f].next ELSE h[f].prev

RECURSIVE PB_next_field_loop(_, _, _, _, _, _)
PB_next_field_loop(h, sentinel, current, fnum, type, dir) ==
    IF current = sentinel THEN NULL
    ELSE IF current = NULL THEN NULL
    ELSE IF h[current].number < 0 \/ h[current].type < 0 \/ h[current].type > 5
         THEN NULL
    ELSE IF (fnum = ANY_FIELD \/ h[current].number = fnum)
            /\ (type = ANY_TYPE \/ h[current].type = type)
         THEN current
    ELSE PB_next_field_loop(h, sentinel, Step(h, current, dir), fnum, type, dir)

\* Variant: no check of the node's number and type, so the walk passes the
\* sentinel and ends only when it is back at prev.
RECURSIVE PB_next_field_wrap_loop(_, _, _, _, _, _)
PB_next_field_wrap_loop(h, sentinel, current, fnum, type, dir) ==
    IF current = sentinel THEN NULL
    ELSE IF h[current].type # SENTINEL_TYPE
            /\ (fnum = ANY_FIELD \/ h[current].number = fnum)
            /\ (type = ANY_TYPE \/ h[current].type = type)
         THEN current
    ELSE PB_next_field_wrap_loop(h, sentinel, Step(h, current, dir), fnum, type, dir)

PB_next_field_wrap(h, prev, fnum, type, dir) ==
    IF prev = NULL THEN NULL
    ELSE PB_next_field_wrap_loop(h, prev, Step(h, prev, dir), fnum, type, dir)

PB_next_field(h, prev, fnum, type, dir) ==
    IF prev = NULL THEN NULL
    ELSE PB_next_field_loop(h, prev, Step(h, prev, dir), fnum, type, dir)

-----------------------------------------------------------------------------
(* PB_expand_packed_fields.                                                 *)

\* The inner while loop: PB_read_value on the packed stream until it returns
\* <= 0 (end of the buffer or an ill-formed value); the values read so far.
\* feof() is set only by a read that fails, which leaves the loop first.
RECURSIVE UnpackValues(_, _, _, _)
UnpackValues(buf, pos, type, acc) ==
    Bind([v \in {PB_read_value(buf, pos, type)} |->
    IF v.rc <= 0 THEN acc
    ELSE UnpackValues(buf, v.pos, type, Append(acc, v.value))])

\* The temporary list new_head .. new_tail, allocated at ids base+1 .. base+n.
NewFields(base, vals, fnum, type) ==
    [i \in 1 .. Len(vals) |->
        [Node(type, fnum, vals[i]) EXCEPT
            !.prev = IF i = 1 THEN NULL ELSE base + i - 1,
            !.next = IF i = Len(vals) THEN NULL ELSE base + i + 1]]

\* Variant of the splice: next->prev is left pointing at the packed field.
SpliceNoBackLink(h, current, vals, fnum, type) ==
    LET prev == h[current].prev
        next == h[current].next
        new_head == Len(h) + 1
        new_tail == Len(h) + Len(vals)
        h0 == h \o NewFields(Len(h), vals, fnum, type)
        h1 == [h0 EXCEPT ![prev].next = new_head]
        h2 == [h1 EXCEPT ![new_head].prev = prev]
        h3 == [h2 EXCEPT ![new_tail].next = next]
    IN [h3 EXCEPT ![current].bfree = @ + 1, ![current].nfree = @ + 1]

\* "Splice the unpacked fields into the message", then free the packed field.
Splice(h, current, vals, fnum, type) ==
    LET prev == h[current].prev
        next == h[current].next
        new_head == Len(h) + 1
        new_tail == Len(h) + Len(vals)
        h0 == h \o NewFields(Len(h), vals, fnum, type)
        h1 == [h0 EXCEPT ![prev].next = new_head]
        h2 == [h1 EXCEPT ![new_head].prev = prev]
        h3 == [h2 EXCEPT ![new_tail].next = next]
        h4 == [h3 EXCEPT ![next].prev = new_tail]
    IN [h4 EXCEPT ![current].bfree = @ + 1, ![current].nfree = @ + 1]

RECURSIVE PB_expand_loop(_, _, _, _, _)
PB_expand_loop(h, m, current, fnum, type) ==
    IF current = m THEN [rc |-> 0, heap |-> h]
    ELSE IF h[current].number = fnum /\ h[current].type = LEN_TYPE
    THEN Bind([vals \in {UnpackValues(h[current].value.buf, 0, type, <<>>)} |->
         IF vals = <<>>
         THEN [rc |-> -1, heap |-> [h EXCEPT ![current].bfree = @ + 1]]
         ELSE PB_expand_loop(Splice(h, current, vals, fnum, type), m,
                             h[current].next, fnum, type)])
    ELSE PB_expand_loop(h, m, h[current].next, fnum, type)

PB_expand_packed_fields(h, m, fnum, type) ==
    IF m = NULL THEN [rc |-> -1, heap |-> h]
    ELSE PB_expand_loop(h, m, h[m].next, fnum, type)

\* PB_delete_message(msg): free() on the buffer of every LEN field, on every
\* field and on the sentinel.  The pointers of the heap are valid ones, so the
\* test of current->next against 0x1000 and 0xFFFFFFFFFFFF never stops the walk.
RECURSIVE PB_delete_loop(_, _, _)
PB_delete_loop(h, m, current) ==
    IF current = m THEN [h EXCEPT ![m].nfree = @ + 1]
    ELSE IF current = NULL THEN h
    ELSE PB_delete_loop([h EXCEPT ![current].bfree =
                                     IF h[current].type = LEN_TYPE THEN @ + 1 ELSE @,
                                  ![current].nfree = @ + 1],
                        m, h[current].next)

\* Variant: the sentinel alone is freed.
PB_delete_message_sentinel_only(h, m) ==
    IF m = NULL THEN h ELSE [h EXCEPT ![m].nfree = @ + 1]

PB_delete_message(h, m) ==
    IF m = NULL THEN h ELSE PB_delete_loop(h, m, h[m].next)

\* Every PB_Field of the heap and every LEN buffer has been freed once.
Released(h) ==
    \A i \in DOMAIN h :
        /\ h[i].nfree = 1
        /\ h[i].bfree = (IF h[i].type = LEN_TYPE THEN 1 ELSE 0)

-----------------------------------------------------------------------------
(* The field list of a message: the nodes met following next from the       *)
(* sentinel until the sentinel comes back, at most Len(h) of them.           *)

RECURSIVE Walk(_, _, _, _)
Walk(h, m, current, fuel) ==
    IF current = m \/ current = NULL \/ fuel = 0 THEN <<>>
    ELSE <<current>> \o Walk(h, m, h[current].next, fuel - 1)

MsgSeq(h, m) == IF m = NULL THEN <<>> ELSE Walk(h, m, h[m].next, Len(h))

\* What a caller sees of a field: number, wire type and value.
Content(h, f) == [number |-> h[f].number, type |-> h[f].type, value |-> h[f].value]

Contents(h, m) == [i \in 1 .. Len(MsgSeq(h, m)) |-> Content(h, MsgSeq(h, m)[i])]

-----------------------------------------------------------------------------
(* Inputs: the standard wire encoding of a list of fields.  A field to be    *)
(* encoded is [number, type, value] with value as in PB_read_value; I32 and  *)
(* I64 values are value.i64 in 4 and 8 little-endian bytes.                  *)

MaxFields == 3      \* fields per generated message
MaxExpands == 2     \* PB_expand_packed_fields calls per behaviour

RECURSIVE EncVarint(_)
EncVarint(n) == IF n < 128 THEN <<n>> ELSE <<128 + (n % 128)>> \o EncVarint(n \div 128)

RECURSIVE EncFixed(_, _)
EncFixed(n, nbytes) ==
    IF nbytes = 0 THEN <<>> ELSE <<n % 256>> \o EncFixed(n \div 256, nbytes - 1)

EncField(f) ==
    EncVarint(f.number * 8 + f.type) \o
    (IF f.type = VARINT_TYPE THEN EncVarint(f.value.i64)
     ELSE IF f.type = LEN_TYPE THEN EncVarint(Len(f.value.buf)) \o f.value.buf
     ELSE IF f.type = I32_TYPE THEN EncFixed(f.value.i64, 4)
     ELSE IF f.type = I64_TYPE THEN EncFixed(f.value.i64, 8)
     ELSE <<>>)

RECURSIVE EncMessage(_)
EncMessage(fs) == IF fs = <<>> THEN <<>> ELSE EncField(Head(fs)) \o EncMessage(Tail(fs))

VarintField(number, n) ==
    [number |-> number, type |-> VARINT_TYPE, value |-> [i64 |-> n, buf |-> <<>>, size |-> 0]]

LenField(number, bytes) ==
    [number |-> number, type |-> LEN_TYPE,
     value |-> [i64 |-> 0, buf |-> bytes, size |-> Len(bytes)]]

FixedField(number, type, n) ==
    [number |-> number, type |-> type, value |-> [i64 |-> n, buf |-> <<>>, size |-> 0]]

SeqsUpTo(S, n) == UNION {[1 .. k -> S] : k \in 0 .. n}

\* Messages to navigate: two field numbers, two wire types, a packed buffer.
NavFieldChoices ==
    { VarintField(1, 5), VarintField(2, 300),
      LenField(1, <<1, 2>>), LenField(2, <<172, 2>>) }

\* Messages to expand: packed buffers that are empty, well formed, truncated
\* after a value, and without any complete value.
PackedFieldChoices ==
    { VarintField(1, 5), LenField(2, <<172, 2>>),
      LenField(1, <<>>), LenField(1, <<1, 2>>), LenField(1, <<3, 128>>),
      LenField(1, <<128>>) }

FieldNumbers == {ANY_FIELD, 1, 2}
WireTypes == {ANY_TYPE, VARINT_TYPE, LEN_TYPE}
Directions == {FORWARD_DIR, BACKWARD_DIR}

\* A call record: from is the prev argument of the last PB_next_field call of a
\* loop, res the field the last call returned, visited the fields returned so far.
NoOp == [op |-> "none", fnum |-> 0, type |-> 0, dir |-> 0, from |-> NULL,
         res |-> NULL, rc |-> 0, visited |-> <<>>, done |-> FALSE]

NoMap == [bbox |-> <<>>, nodes |-> <<>>, ways |-> <<>>]
NoFile == [data |-> <<>>, pos |-> 0, eof |-> FALSE]
\* What one iteration of the loop of OSM_read_Map saw: the length bytes, the
\* type string and datasize of the BlobHeader, the fields of the Blob
\* (parsed says the Blob message was built), which field the inner message
\* was taken from (got says it was built, imsg is its fields), the decoder the
\* blob went to, and whether that decoder met a sub-message it could not parse.
NoBlob == [hlen |-> <<>>, type |-> <<>>, datasize |-> 0, parsed |-> FALSE,
           fields |-> <<>>, inner |-> "none", got |-> FALSE, imsg |-> <<>>,
           dispatch |-> "none", rc |-> 0, err |-> FALSE, ev |-> <<>>]

MapIdle ==
    /\ in = NoFile
    /\ map = NoMap
    /\ status = "idle"
    /\ blob = NoBlob

ReadIdle ==
    /\ cdata = <<>>
    /\ clen = 0
    /\ cpos = 0
    /\ crc = 0

-----------------------------------------------------------------------------
(* SpecNav and SpecExpand: the message API on a message that                 *)
(* PB_read_message built from the encoding of a list of fields.              *)

InitMessage(m, choices) ==
    /\ mode = m
    /\ ReadIdle
    /\ MapIdle
    /\ junk \in {-1, 1}
    /\ \E fs \in SeqsUpTo(choices, MaxFields) :
          \E r \in {PB_read_message(EncMessage(fs), 0, Len(EncMessage(fs)), junk)} :
          /\ fs # <<>>
          /\ r.rc > 0
          /\ heap = r.heap
          /\ msg = r.msg
    /\ last = NoOp
    /\ pre = Contents(heap, msg)
    /\ nops = 0

InitNav == InitMessage("nav", NavFieldChoices)

InitExpand == InitMessage("expand", PackedFieldChoices)

GetField(fnum, type) ==
    /\ last' = [NoOp EXCEPT !.op = "get", !.fnum = fnum, !.type = type,
                            !.res = PB_get_field(heap, msg, fnum, type)]
    /\ pre' = Contents(heap, msg)
    /\ UNCHANGED <<mode, cdata, clen, cpos, crc, heap, msg, junk, nops, mapVars>>

\* A caller's loop  f = NULL; while ((f = PB_next_field(f ? f : msg, ...))) ...
\* IterStart enters the loop, IterStep is one evaluation of its condition.
IterStart(fnum, type, dir) ==
    /\ last' = [NoOp EXCEPT !.op = "iter", !.fnum = fnum, !.type = type, !.dir = dir]
    /\ pre' = Contents(heap, msg)
    /\ UNCHANGED <<mode, cdata, clen, cpos, crc, heap, msg, junk, nops, mapVars>>

IterStep ==
    /\ last.op = "iter"
    /\ ~last.done
    /\ LET prev == IF last.res # NULL THEN last.res ELSE msg
           f == PB_next_field(heap, prev, last.fnum, last.type, last.dir)
       IN last' = IF f = NULL
                  THEN [last EXCEPT !.from = prev, !.res = NULL, !.done = TRUE]
                  ELSE [last EXCEPT !.from = prev, !.res = f, !.visited = Append(@, f)]
    /\ UNCHANGED <<mode, cdata, clen, cpos, crc, heap, msg, junk, pre, nops, mapVars>>

\* What a read of a buffer may deliver: its bytes, or other bytes once the
\* buffer has been freed.
Garbage(n) == IF n.bfree = 0 THEN {n.value.buf}
              ELSE {n.value.buf, [i \in 1 .. Len(n.value.buf) |-> 1]}

Expand(fnum, type) ==
    \E g \in [1 .. Len(heap) -> UNION {Garbage(heap[i]) : i \in 1 .. Len(heap)}] :
       /\ \A i \in 1 .. Len(heap) : g[i] \in Garbage(heap[i])
       /\ \E h0 \in {[i \in 1 .. Len(heap) |-> [heap[i] EXCEPT !.value.buf = g[i]]]} :
          \E r \in {PB_expand_packed_fields(h0, msg, fnum, type)} :
             /\ heap' = r.heap
             /\ last' = [NoOp EXCEPT !.op = "expand", !.fnum = fnum,
                                     !.type = type, !.rc = r.rc]
             /\ pre' = Contents(h0, msg)
       /\ nops' = nops + 1
       /\ UNCHANGED <<mode, cdata, clen, cpos, crc, msg, junk, mapVars>>

\* Navigation of a message as read and after the expansion of its field 1.
NextNav ==
    \/ \E fnum \in FieldNumbers, type \in WireTypes : GetField(fnum, type)
    \/ \E fnum \in FieldNumbers, type \in WireTypes, dir \in Directions :
          IterStart(fnum, type, dir)
    \/ IterStep
    \/ nops = 0 /\ Expand(1, VARINT_TYPE)

SpecNav == InitNav /\ [][NextNav]_vars

\* PB_delete_message(msg) ends the life of the message.
DeleteMessage ==
    /\ last.op # "delete"
    /\ heap' = PB_delete_message(heap, msg)
    /\ last' = [NoOp EXCEPT !.op = "delete"]
    /\ pre' = Contents(heap, msg)
    /\ UNCHANGED <<mode, cdata, clen, cpos, crc, msg, junk, nops, mapVars>>

NextExpand ==
    \/ \E fnum \in {1, 2} :
          nops < MaxExpands /\ last.op # "delete" /\ Expand(fnum, VARINT_TYPE)
    \/ DeleteMessage

SpecExpand == InitExpand /\ [][NextExpand]_vars

-----------------------------------------------------------------------------
(* Reference notions the claims are stated with.                            *)

Max(S) == CHOOSE x \in S : \A y \in S : y <= x
MinOf(S) == CHOOSE x \in S : \A y \in S : x <= y

CursorsOf(s) == {msg} \cup {s[i] : i \in 1 .. Len(s)}

\* Position of cursor c in the field list s; the head stands before the first
\* field going forward and after the last going backward.
PosOf(s, c, dir) ==
    IF c = msg THEN (IF dir = FORWARD_DIR THEN 0 ELSE Len(s) + 1)
    ELSE CHOOSE i \in 1 .. Len(s) : s[i] = c

NumberMatches(f, fnum) == fnum = ANY_FIELD \/ heap[f].number = fnum
TypeMatches(f, type) == type = ANY_TYPE \/ heap[f].type = type

\* Indices of the fields beyond cursor c in direction dir, up to the sentinel.
Beyond(s, c, dir) ==
    IF dir = FORWARD_DIR THEN PosOf(s, c, dir) + 1 .. Len(s)
    ELSE 1 .. PosOf(s, c, dir) - 1

\* The nearest field in direction dir among those at the indices I.
NearestOf(s, I, dir) ==
    IF I = {} THEN NULL
    ELSE s[IF dir = FORWARD_DIR THEN MinOf(I) ELSE Max(I)]

NearestByNumber(s, c, fnum, dir) ==
    NearestOf(s, {i \in Beyond(s, c, dir) : NumberMatches(s[i], fnum)}, dir)

NearestByNumberAndType(s, c, fnum, type, dir) ==
    NearestOf(s, {i \in Beyond(s, c, dir) : NumberMatches(s[i], fnum)
                                            /\ TypeMatches(s[i], type)}, dir)

\* The fields of s a loop over (fnum, type) is to visit.
RECURSIVE SelectSeq2(_, _, _)
SelectSeq2(s, fnum, type) ==
    IF s = <<>> THEN <<>>
    ELSE (IF NumberMatches(Head(s), fnum) /\ TypeMatches(Head(s), type)
          THEN <<Head(s)>> ELSE <<>>) \o SelectSeq2(Tail(s), fnum, type)

Reverse(s) == [i \in 1 .. Len(s) |-> s[Len(s) + 1 - i]]

ToVisit(s, fnum, type, dir) ==
    SelectSeq2(IF dir = FORWARD_DIR THEN s ELSE Reverse(s), fnum, type)

IsPrefix(a, b) == Len(a) <= Len(b) /\ SubSeq(b, 1, Len(a)) = a

-----------------------------------------------------------------------------
\* C7: PB_get_field(msg, fnum, type) returns the last field in insertion order
\* whose number is fnum, or NULL when there is none; when type is not ANY_TYPE
\* and that last field has another wire type it returns NULL, also when an
\* earlier field with that number has the requested type.
C7_GetFieldLastWins ==
    last.op = "get" =>
       LET s == MsgSeq(heap, msg)
           I == {i \in 1 .. Len(s) : heap[s[i]].number = last.fnum}
       IN last.fnum # ANY_FIELD =>
          /\ I = {} => last.res = NULL
          /\ I # {} /\ TypeMatches(s[Max(I)], last.type) => last.res = s[Max(I)]
          /\ I # {} /\ ~TypeMatches(s[Max(I)], last.type) => last.res = NULL

\* A call that found the last field numbered fnum with another type than asked
\* for, while an earlier field numbered fnum has the type asked for.
C7_Witness ==
    /\ last.op = "get"
    /\ last.res = NULL
    /\ last.type # ANY_TYPE
    /\ LET s == MsgSeq(heap, msg) IN
       \E i, j \in 1 .. Len(s) :
          /\ i < j
          /\ heap[s[i]].number = last.fnum
          /\ heap[s[i]].type = last.type
          /\ heap[s[j]].number = last.fnum
          /\ heap[s[j]].type # last.type
          /\ \A k \in j + 1 .. Len(s) : heap[s[k]].number # last.fnum

C9_NextFieldTypeMismatchIsNull ==
    last.op = "iter" /\ last.from # NULL /\ last.type # ANY_TYPE =>
       LET s == MsgSeq(heap, msg)
           n == NearestByNumber(s, last.from, last.fnum, last.dir)
       IN n # NULL /\ heap[n].type # last.type => last.res = NULL

-----------------------------------------------------------------------------
(* Packed buffers, by the wire format: a concatenation of varints, each a    *)
(* run of bytes with the high bit set closed by one byte without it.         *)

RECURSIVE GroupsValue(_)
GroupsValue(b) ==
    IF b = <<>> THEN 0 ELSE (Head(b) % 128) + 128 * GroupsValue(Tail(b))

WellFormedPacked(buf) == buf = <<>> \/ buf[Len(buf)] < 128

RECURSIVE PackedValues(_)
PackedValues(buf) ==
    IF buf = <<>> THEN <<>>
    ELSE LET k == MinOf({i \in 1 .. Len(buf) : buf[i] < 128}) IN
         <<GroupsValue(SubSeq(buf, 1, k))>> \o PackedValues(SubSeq(buf, k + 1, Len(buf)))

IsPacked(c, fnum) == c.number = fnum /\ c.type = LEN_TYPE

\* The fields that stand for field content c once field fnum is expanded.
Expansion(c, fnum) ==
    IF IsPacked(c, fnum)
    THEN [i \in 1 .. Len(PackedValues(c.value.buf)) |->
             VarintField(fnum, PackedValues(c.value.buf)[i])]
    ELSE <<c>>

RECURSIVE Expanded(_, _)
Expanded(cs, fnum) ==
    IF cs = <<>> THEN <<>> ELSE Expansion(Head(cs), fnum) \o Expanded(Tail(cs), fnum)

\* C10: PB_expand_packed_fields(msg, fnum, VARINT_TYPE) on a message whose LEN
\* fields numbered fnum hold well-formed packed varints returns 0 and replaces
\* each of them, in place, by the VARINT fields decoded from its buffer in
\* buffer order, all other fields and the order of the fields unchanged; with
\* no LEN field numbered fnum it returns 0 and changes nothing.
C10_ExpandReplacesEveryPackedField ==
    last.op = "expand"
    /\ (\A i \in 1 .. Len(pre) :
           IsPacked(pre[i], last.fnum) => WellFormedPacked(pre[i].value.buf))
    => /\ last.rc = 0
       /\ Contents(heap, msg) = Expanded(pre, last.fnum)

\* The same, for the calls in which every LEN field numbered fnum holds one
\* complete varint at least: what the code does deliver.
ExpandOfNonEmptyPackedFields ==
    last.op = "expand"
    /\ (\A i \in 1 .. Len(pre) :
           IsPacked(pre[i], last.fnum) =>
              WellFormedPacked(pre[i].value.buf) /\ pre[i].value.buf # <<>>)
    => /\ last.rc = 0
       /\ Contents(heap, msg) = Expanded(pre, last.fnum)

\* C11: PB_expand_packed_fields returns -1 whenever a LEN field numbered fnum
\* holds an ill-formed value (a varint cut short at the end of the buffer), and
\* whenever it returns -1 the message is as it was before the call: the same
\* fields in the same order, and no buffer of a field released.  Stated for
\* the first call on a message, before which no buffer has been released.
C11_ExpandFailsOnIllFormedAndLeavesMessage ==
    last.op = "expand" /\ nops = 1 =>
       /\ (\E i \in 1 .. Len(pre) :
              IsPacked(pre[i], last.fnum) /\ ~WellFormedPacked(pre[i].value.buf))
          => last.rc = -1
       /\ last.rc = -1 =>
             /\ Contents(heap, msg) = pre
             /\ \A i \in 1 .. Len(heap) : heap[i].bfree = 0

-----------------------------------------------------------------------------
(* SpecRead: PB_read_message on a stream that holds the encoding of a list   *)
(* of fields (kept in pre), followed by the bytes of a trailer.              *)

ReadFieldChoices ==
    { VarintField(1, 5), VarintField(2, 300), LenField(1, <<>>),
      LenField(2, <<172, 2>>), LenField(1, <<7>>),
      FixedField(1, I32_TYPE, 1), FixedField(2, I64_TYPE, 258) }

Trailers == {<<>>, <<7>>, <<255>>, <<8, 1>>}

InitRead ==
    /\ mode = "read"
    /\ MapIdle
    /\ junk \in {-1, 1}
    /\ pre \in SeqsUpTo(ReadFieldChoices, MaxFields)
    /\ \E t \in Trailers : cdata = EncMessage(pre) \o t
    /\ clen \in {n \in {Len(EncMessage(pre)) - 1, Len(EncMessage(pre)),
                        Len(EncMessage(pre)) + 1} : n >= 0}
    /\ cpos = 0
    /\ crc = 0
    /\ heap = <<>>
    /\ msg = NULL
    /\ last = NoOp
    /\ nops = 0

ReadMessage ==
    /\ last.op = "none"
    /\ \E r \in {PB_read_message(cdata, cpos, clen, junk)} :
       /\ crc' = r.rc
       /\ cpos' = r.pos
       /\ heap' = r.heap
       /\ msg' = r.msg
    /\ last' = [NoOp EXCEPT !.op = "read"]
    /\ UNCHANGED <<mode, cdata, clen, junk, pre, nops, mapVars>>

NextRead == ReadMessage

SpecRead == InitRead /\ [][NextRead]_vars

\* C1: for a valid message serialized in L bytes, PB_read_message with length
\* L succeeds, consumes exactly L bytes of the stream and yields the fields of
\* the message; with length L - 1 or L + 1 it returns -1 and no message.
C1_ReadMessageLengthInvariant ==
    LET L == Len(EncMessage(pre)) IN
    last.op = "read" /\ L > 0 =>
       /\ clen = L => /\ crc = L
                      /\ cpos = L
                      /\ msg # NULL
                      /\ Contents(heap, msg) = pre
       /\ clen # L => crc = -1 /\ msg = NULL

\* The same for the messages whose fields are all VARINT or LEN, on a stream
\* that does not go on with a byte 0x07 or 0xFF: what the code does deliver.
ReadOfVarintAndLenFields ==
    LET L == Len(EncMessage(pre)) IN
    /\ last.op = "read"
    /\ L > 0
    /\ \A i \in 1 .. Len(pre) : pre[i].type \in {VARINT_TYPE, LEN_TYPE}
    /\ Len(cdata) > L => cdata[L + 1] \notin {7, 255}
    => /\ clen = L => /\ crc = L
                      /\ cpos = L
                      /\ msg # NULL
                      /\ Contents(heap, msg) = pre
       /\ clen # L => crc = -1 /\ msg = NULL

-----------------------------------------------------------------------------
(* The domain decoders of process_args.c.  An OSM_Map is a record           *)
(* [bbox, nodes, ways]: bbox is <<>> for a NULL pointer and <<b>> otherwise, *)
(* nodes and ways are the arrays in insertion order.  A char* that may be    *)
(* NULL is likewise <<>> or <<bytes>>.  Every allocation succeeds.           *)

\* (val >> 1) ^ -(val & 1) for 0 <= val < 2^63.
zigzag_decode(val) == IF val % 2 = 0 THEN val \div 2 ELSE -((val + 1) \div 2)

\* The C string that starts at the first byte of s: the bytes before the first NUL.
RECURSIVE strdup(_)
strdup(s) == IF s = <<>> \/ Head(s) = 0 THEN <<>> ELSE <<Head(s)>> \o strdup(Tail(s))

strcmp(a, b) == IF strdup(a) = strdup(b) THEN 0 ELSE 1

\* f = NULL; while ((f = PB_next_field((f ? f : m), fnum, type, FORWARD_DIR))):
\* the fields the loop body is run with, in order.
RECURSIVE FieldLoop(_, _, _, _, _)
FieldLoop(h, m, f, fnum, type) ==
    Bind([g \in {PB_next_field(h, IF f # NULL THEN f ELSE m, fnum, type, FORWARD_DIR)} |->
    IF g = NULL THEN <<>> ELSE <<g>> \o FieldLoop(h, m, g, fnum, type)])

parse_HeaderBlock(h, pb_msg, mp, sn) ==
    IF pb_msg = NULL THEN [rc |-> -1, map |-> mp, err |-> FALSE]
    ELSE Bind([bbox_field \in {PB_get_field(h, pb_msg, 1, LEN_TYPE)} |->
    IF bbox_field = NULL THEN [rc |-> 0, map |-> mp, err |-> FALSE]
    ELSE Bind([b \in {PB_read_embedded_message(h[bbox_field].value.buf,
                                       h[bbox_field].value.size, sn)} |->
    IF b.rc < 0 \/ b.msg = NULL THEN [rc |-> -1, map |-> mp, err |-> TRUE]
    ELSE LET min_lon_f == PB_get_field(b.heap, b.msg, 1, VARINT_TYPE)
             max_lon_f == PB_get_field(b.heap, b.msg, 2, VARINT_TYPE)
             max_lat_f == PB_get_field(b.heap, b.msg, 3, VARINT_TYPE)
             min_lat_f == PB_get_field(b.heap, b.msg, 4, VARINT_TYPE)
         IN IF min_lon_f = NULL \/ max_lon_f = NULL \/ max_lat_f = NULL \/ min_lat_f = NULL
            THEN [rc |-> 0, map |-> mp, err |-> FALSE]
            ELSE [rc |-> 0, err |-> FALSE,
                  map |-> [mp EXCEPT !.bbox =
                     << [min_lon |-> zigzag_decode(b.heap[min_lon_f].value.i64),
                         max_lon |-> zigzag_decode(b.heap[max_lon_f].value.i64),
                         max_lat |-> zigzag_decode(b.heap[max_lat_f].value.i64),
                         min_lat |-> zigzag_decode(b.heap[min_lat_f].value.i64)] >>]]])])

expand_string_table(h, block_msg, sn) ==
    Bind([st_field \in {PB_get_field(h, block_msg, 1, LEN_TYPE)} |->
    IF st_field = NULL THEN [rc |-> 0, strings |-> <<>>, count |-> 0]
    ELSE Bind([st \in {PB_read_embedded_message(h[st_field].value.buf,
                                       h[st_field].value.size, sn)} |->
    IF st.rc < 0 \/ st.msg = NULL THEN [rc |-> -1, strings |-> <<>>, count |-> 0]
    ELSE Bind([fs \in {FieldLoop(st.heap, st.msg, NULL, 1, LEN_TYPE)} |->
         [rc |-> 0, count |-> Len(fs),
          strings |-> [i \in 1 .. Len(fs) |-> st.heap[fs[i]].value.buf]]])])])

\* The loop that walks the key fields (#2) and the value fields (#3) of a way
\* in parallel; idx counts from 0 as in the code.
RECURSIVE WayTagLoop(_, _, _, _, _, _, _, _, _)
WayTagLoop(h, m, kf, vf, idx, way_keys, way_vals, stringtable, string_count) ==
    LET kf2 == PB_next_field(h, IF kf # NULL THEN kf ELSE m, 2, VARINT_TYPE, FORWARD_DIR) IN
    IF kf2 = NULL THEN [keys |-> way_keys, vals |-> way_vals]
    ELSE LET vf2 == PB_next_field(h, IF vf # NULL THEN vf ELSE m, 3, VARINT_TYPE,
                                  FORWARD_DIR) IN
    IF vf2 = NULL THEN [keys |-> way_keys, vals |-> way_vals]
    ELSE LET k_idx == h[kf2].value.i64
             v_idx == h[vf2].value.i64
         IN WayTagLoop(h, m, kf2, vf2, idx + 1,
               IF k_idx < string_count
               THEN [way_keys EXCEPT ![idx + 1] = <<strdup(stringtable[k_idx + 1])>>]
               ELSE way_keys,
               IF v_idx < string_count
               THEN [way_vals EXCEPT ![idx + 1] = <<strdup(stringtable[v_idx + 1])>>]
               ELSE way_vals,
               stringtable, string_count)

\* The loop over the ref fields (#8): zigzag, then the running sum.
RECURSIVE WayRefLoop(_, _, _, _)
WayRefLoop(h, rfs, running, refs_array) ==
    IF rfs = <<>> THEN refs_array
    ELSE LET delta == zigzag_decode(h[Head(rfs)].value.i64) IN
         WayRefLoop(h, Tail(rfs), running + delta, Append(refs_array, running + delta))

\* One way: id, expanded keys / vals / refs, the OSM_Way appended to map->ways.
ParseWay(h, way_msg, mp, stringtable, string_count) ==
    Bind([id_f \in {PB_get_field(h, way_msg, 1, VARINT_TYPE)} |->
    IF id_f = NULL THEN mp
    ELSE Bind([h2 \in {PB_expand_packed_fields(h, way_msg, 2, VARINT_TYPE).heap} |->
         Bind([h3 \in {PB_expand_packed_fields(h2, way_msg, 3, VARINT_TYPE).heap} |->
         Bind([h8 \in {PB_expand_packed_fields(h3, way_msg, 8, VARINT_TYPE).heap} |->
         Bind([num_keys \in {Len(FieldLoop(h8, way_msg, NULL, 2, VARINT_TYPE))} |->
         Bind([tags \in {WayTagLoop(h8, way_msg, NULL, NULL, 0,
                         [i \in 1 .. num_keys |-> <<>>],
                         [i \in 1 .. num_keys |-> <<>>],
                         stringtable, string_count)} |->
         Bind([refs \in {WayRefLoop(h8, FieldLoop(h8, way_msg, NULL, 8, VARINT_TYPE), 0, <<>>)} |->
         [mp EXCEPT !.ways = Append(@, [id |-> h[id_f].value.i64, keys |-> tags.keys,
                                        vals |-> tags.vals, refs |-> refs])]])])])])])])])

\* The body of the loop of parse_ways_in_group for the way fields ws; err
\* records that a way sub-message did not parse.
RECURSIVE parse_ways_loop(_, _, _, _, _, _)
parse_ways_loop(h, ws, mp, stringtable, string_count, sn) ==
    IF ws = <<>> THEN [rc |-> 0, map |-> mp, err |-> FALSE]
    ELSE Bind([w \in {PB_read_embedded_message(h[Head(ws)].value.buf,
                                       h[Head(ws)].value.size, sn)} |->
         IF w.rc < 0 \/ w.msg = NULL
         THEN [parse_ways_loop(h, Tail(ws), mp, stringtable, string_count, sn)
                  EXCEPT !.err = TRUE]
         ELSE parse_ways_loop(h, Tail(ws),
                  ParseWay(w.heap, w.msg, mp, stringtable, string_count),
                  stringtable, string_count, sn)])

parse_ways_in_group(h, group_msg, mp, stringtable, string_count, sn) ==
    parse_ways_loop(h, FieldLoop(h, group_msg, NULL, 3, LEN_TYPE), mp,
                    stringtable, string_count, sn)

\* The loop of parse_nodes_in_group with the new node put before the nodes
\* already in the Map instead of after them.
RECURSIVE DenseLoopPrepend(_, _, _, _, _, _, _, _, _, _)
DenseLoopPrepend(h, m, id_field, lat_field, lon_field, last_id, last_lat, last_lon, mp, num_nodes) ==
    Bind([id2 \in {PB_next_field(h, IF id_field # NULL THEN id_field ELSE m, 1,
                       VARINT_TYPE, FORWARD_DIR)} |->
    IF id2 = NULL THEN [rc |-> num_nodes, map |-> mp, err |-> FALSE]
    ELSE Bind([lat2 \in {PB_next_field(h, IF lat_field # NULL THEN lat_field ELSE m, 8,
                            VARINT_TYPE, FORWARD_DIR)} |->
    IF lat2 = NULL THEN [rc |-> num_nodes, map |-> mp, err |-> FALSE]
    ELSE Bind([lon2 \in {PB_next_field(h, IF lon_field # NULL THEN lon_field ELSE m, 9,
                            VARINT_TYPE, FORWARD_DIR)} |->
    IF lon2 = NULL THEN [rc |-> num_nodes, map |-> mp, err |-> FALSE]
    ELSE LET id == last_id + zigzag_decode(h[id2].value.i64)
             lat == last_lat + zigzag_decode(h[lat2].value.i64)
             lon == last_lon + zigzag_decode(h[lon2].value.i64)
         IN DenseLoopPrepend(h, m, id2, lat2, lon2, id, lat, lon,
                [mp EXCEPT !.nodes = <<[id |-> id, lat |-> lat, lon |-> lon]>> \o @],
                num_nodes + 1)])])])

\* The loop of parse_nodes_in_group: ids (#1), lats (#8) and lons (#9) in
\* parallel, each a zigzag delta on the previous node.
RECURSIVE DenseLoop(_, _, _, _, _, _, _, _, _, _)
DenseLoop(h, m, id_field, lat_field, lon_field, last_id, last_lat, last_lon, mp, num_nodes) ==
    Bind([id2 \in {PB_next_field(h, IF id_field # NULL THEN id_field ELSE m, 1,
                       VARINT_TYPE, FORWARD_DIR)} |->
    IF id2 = NULL THEN [rc |-> num_nodes, map |-> mp, err |-> FALSE]
    ELSE Bind([lat2 \in {PB_next_field(h, IF lat_field # NULL THEN lat_field ELSE m, 8,
                            VARINT_TYPE, FORWARD_DIR)} |->
    IF lat2 = NULL THEN [rc |-> num_nodes, map |-> mp, err |-> FALSE]
    ELSE Bind([lon2 \in {PB_next_field(h, IF lon_field # NULL THEN lon_field ELSE m, 9,
                            VARINT_TYPE, FORWARD_DIR)} |->
    IF lon2 = NULL THEN [rc |-> num_nodes, map |-> mp, err |-> FALSE]
    ELSE LET id == last_id + zigzag_decode(h[id2].value.i64)
             lat == last_lat + zigzag_decode(h[lat2].value.i64)
             lon == last_lon + zigzag_decode(h[lon2].value.i64)
         IN DenseLoop(h, m, id2, lat2, lon2, id, lat, lon,
                [mp EXCEPT !.nodes = Append(@, [id |-> id, lat |-> lat, lon |-> lon])],
                num_nodes + 1)])])])

parse_nodes_in_group(h, group_msg, mp, sn) ==
    IF group_msg = NULL THEN [rc |-> -1, map |-> mp, err |-> FALSE]
    ELSE Bind([dense_field \in {PB_get_field(h, group_msg, 2, LEN_TYPE)} |->
    IF dense_field = NULL THEN [rc |-> 0, map |-> mp, err |-> FALSE]
    ELSE Bind([d \in {PB_read_embedded_message(h[dense_field].value.buf,
                                       h[dense_field].value.size, sn)} |->
    IF d.rc < 0 \/ d.msg = NULL THEN [rc |-> -1, map |-> mp, err |-> TRUE]
    ELSE Bind([h1 \in {PB_expand_packed_fields(d.heap, d.msg, 1, VARINT_TYPE).heap} |->
         Bind([h8 \in {PB_expand_packed_fields(h1, d.msg, 8, VARINT_TYPE).heap} |->
         Bind([h9 \in {PB_expand_packed_fields(h8, d.msg, 9, VARINT_TYPE).heap} |->
         DenseLoop(h9, d.msg, NULL, NULL, NULL, 0, 0, 0, mp, 0)])])])])])

\* The loop of parse_PrimitiveBlock over the group fields gs; err records
\* that a group, or a sub-message of a group, did not parse.
RECURSIVE parse_groups_loop(_, _, _, _, _, _)
parse_groups_loop(h, gs, mp, stringtable, string_count, sn) ==
    IF gs = <<>> THEN [rc |-> 0, map |-> mp, err |-> FALSE]
    ELSE Bind([g \in {PB_read_embedded_message(h[Head(gs)].value.buf,
                                       h[Head(gs)].value.size, sn)} |->
         IF g.rc < 0 \/ g.msg = NULL
         THEN [parse_groups_loop(h, Tail(gs), mp, stringtable, string_count, sn)
                  EXCEPT !.err = TRUE]
         ELSE Bind([n \in {parse_nodes_in_group(g.heap, g.msg, mp, sn)} |->
              Bind([w \in {parse_ways_in_group(g.heap, g.msg, n.map, stringtable,
                                       string_count, sn)} |->
              Bind([rest \in {parse_groups_loop(h, Tail(gs), w.map, stringtable,
                                     string_count, sn)} |->
              [rest EXCEPT !.err = @ \/ n.err \/ w.err]])])])])

parse_PrimitiveBlock(h, pb_msg, mp, sn) ==
    IF pb_msg = NULL THEN [rc |-> -1, map |-> mp, err |-> FALSE]
    ELSE Bind([st \in {expand_string_table(h, pb_msg, sn)} |->
         Bind([r \in {parse_groups_loop(h, FieldLoop(h, pb_msg, NULL, 2, LEN_TYPE), mp,
                                st.strings, st.count, sn)} |->
         [rc |-> 0, map |-> r.map, err |-> r.err \/ st.rc < 0]])])

-----------------------------------------------------------------------------
(* zlib_inflate.  A compressed stream is a header byte, the length of the    *)
(* content, the content, and a checksum of the content; anything else is a   *)
(* data error.                                                               *)

Z_OK == 0
Z_DATA_ERROR == -3
ZlibHeader == 120

RECURSIVE ByteSum(_)
ByteSum(s) == IF s = <<>> THEN 0 ELSE Head(s) + ByteSum(Tail(s))

zlib_inflate(source) ==
    LET n == Len(source) - 3
        content == SubSeq(source, 3, Len(source) - 1)
    IN IF n >= 0 /\ source[1] = ZlibHeader /\ source[2] = n
          /\ source[Len(source)] = ByteSum(content) % 256
       THEN [rc |-> Z_OK, out |-> content]
       ELSE [rc |-> Z_DATA_ERROR, out |-> <<>>]

PB_inflate_embedded_message(buf, len, sn) ==
    IF len = 0 THEN NoMessage
    ELSE Bind([z \in {zlib_inflate(SubSeq(buf, 1, len))} |->
         IF z.rc # Z_OK THEN NoMessage
         ELSE Bind([r \in {PB_read_embedded_message(z.out, Len(z.out), sn)} |->
              IF r.rc >= 0 THEN [r EXCEPT !.rc = 0] ELSE NoMessage])])

-----------------------------------------------------------------------------
(* OSM_read_Map.  The FILE is [data, pos, eof]: eof is the end-of-file       *)
(* indicator, set by a read that asks for more bytes than remain.            *)

\* The stream after fread(buf, 1, n, in).
AfterRead(f, n) ==
    [f EXCEPT !.pos = Min(f.pos + n, Len(f.data)),
              !.eof = f.eof \/ f.pos + n > Len(f.data)]

UINT32_MAX_BYTES == <<255, 255, 255, 255>>

\* read_uint32_be: the four bytes read (most significant first), all ones for
\* UINT32_MAX when fewer than four could be read.
read_uint32_be(f) ==
    LET buf == fread(f.data, f.pos, 4) IN
    [bytes |-> IF Len(buf) # 4 THEN UINT32_MAX_BYTES ELSE buf, in |-> AfterRead(f, 4)]

\* ntohl: the value of four bytes, most significant first.
ntohl(b) == ((b[1] * 256 + b[2]) * 256 + b[3]) * 256 + b[4]

\* "Handle compressed or raw data": the uncompressed_msg of a Blob message.
MaterializeRawFirst(h, blob_msg, sn) ==
    LET zlib_data_field == PB_get_field(h, blob_msg, 3, LEN_TYPE)
        raw_field == PB_get_field(h, blob_msg, 1, LEN_TYPE)
    IN IF raw_field # NULL
       THEN [inner |-> "raw",
             u |-> PB_read_embedded_message(h[raw_field].value.buf,
                                            h[raw_field].value.size, sn)]
       ELSE IF zlib_data_field # NULL
       THEN [inner |-> "zlib",
             u |-> PB_inflate_embedded_message(h[zlib_data_field].value.buf,
                                               h[zlib_data_field].value.size, sn)]
       ELSE [inner |-> "none", u |-> NoMessage]

Materialize(h, blob_msg, sn) ==
    LET zlib_data_field == PB_get_field(h, blob_msg, 3, LEN_TYPE)
        raw_field == PB_get_field(h, blob_msg, 1, LEN_TYPE)
    IN IF zlib_data_field # NULL
       THEN [inner |-> "zlib",
             u |-> PB_inflate_embedded_message(h[zlib_data_field].value.buf,
                                               h[zlib_data_field].value.size, sn)]
       ELSE IF raw_field # NULL
       THEN [inner |-> "raw",
             u |-> PB_read_embedded_message(h[raw_field].value.buf,
                                            h[raw_field].value.size, sn)]
       ELSE [inner |-> "none", u |-> NoMessage]

\* "Process OSMHeader or OSMData": the decoder's result and which one ran.
Dispatch(type_str, h, uncompressed_msg, mp, sn) ==
    IF strcmp(type_str, OSMHeaderStr) = 0
    THEN [to |-> "header", r |-> parse_HeaderBlock(h, uncompressed_msg, mp, sn)]
    ELSE IF strcmp(type_str, OSMDataStr) = 0
    THEN [to |-> "data", r |-> parse_PrimitiveBlock(h, uncompressed_msg, mp, sn)]
    ELSE [to |-> "skip", r |-> [rc |-> 0, map |-> mp, err |-> FALSE]]

\* The allocations and releases of one iteration of OSM_read_Map, in order.
\* A message is allocated by the PB_read_embedded_message or
\* PB_inflate_embedded_message that returns it and released by
\* PB_delete_message; a call that fails returns no message.
Malloc(b, obj) == [b EXCEPT !.ev = Append(@, [op |-> "malloc", obj |-> obj])]
Free(b, obj) == [b EXCEPT !.ev = Append(@, [op |-> "free", obj |-> obj])]
Delete(b, obj, h, m) ==
    [b EXCEPT !.ev = Append(@, [op |-> IF Released(PB_delete_message(h, m))
                                       THEN "free" ELSE "partial_free",
                                obj |-> obj])]

\* A return of NULL from inside the loop.
ReturnNull(f, mp, b) == [in |-> f, map |-> mp, status |-> "returned_null", blob |-> b]

\* Steps 4 to 6 and the dispatch: the stream is past the BlobHeader, whose
\* type string and datasize are in b.
ReadBlobData(f, mp, sn, b) ==
    IF b.datasize = 0
    THEN [in |-> f, map |-> mp, status |-> "running", blob |-> Free(b, "type_str")]
    ELSE Bind([blob_buf \in {fread(f.data, f.pos, b.datasize)} |->
         Bind([f2 \in {AfterRead(f, b.datasize)} |->
         Bind([b1 \in {Malloc(b, "blob_buf")} |->
    IF Len(blob_buf) # b.datasize \/ f2.eof
    THEN ReturnNull(f2, mp, Free(Free(b1, "type_str"), "blob_buf"))
    ELSE Bind([bm \in {PB_read_embedded_message(blob_buf, b.datasize, sn)} |->
    IF bm.rc < 0 \/ bm.msg = NULL
    THEN ReturnNull(f2, mp, Free(Free(b1, "type_str"), "blob_buf"))
    ELSE Bind([m \in {Materialize(bm.heap, bm.msg, sn)} |->
         Bind([b2 \in {[Free(Malloc(b1, "blob_msg"), "blob_buf")
                           EXCEPT !.parsed = TRUE, !.fields = Contents(bm.heap, bm.msg),
                                  !.inner = m.inner]} |->
    IF m.u.rc < 0 \/ m.u.msg = NULL
    THEN ReturnNull(f2, mp, Free(Delete(b2, "blob_msg", bm.heap, bm.msg), "type_str"))
    ELSE Bind([d \in {Dispatch(b.type, m.u.heap, m.u.msg, mp, sn)} |->
         [in |-> f2, map |-> d.r.map,
          status |-> IF f2.eof THEN "returned_map" ELSE "running",
          blob |-> [Free(Delete(Delete(Malloc(b2, "uncompressed_msg"),
                                       "blob_msg", bm.heap, bm.msg),
                                "uncompressed_msg", m.u.heap, m.u.msg), "type_str")
                       EXCEPT !.got = TRUE, !.imsg = Contents(m.u.heap, m.u.msg),
                              !.dispatch = d.to, !.rc = d.r.rc, !.err = d.r.err]]])])])])])])])

\* One iteration of the while (1) loop of OSM_read_Map on stream f and map mp.
OSM_read_Map_loop(f, mp, sn) ==
    Bind([l \in {read_uint32_be(f)} |->
    Bind([b \in {[NoBlob EXCEPT !.hlen = l.bytes]} |->
    IF l.bytes = <<0, 0, 0, 0>> \/ l.in.eof
    THEN [in |-> l.in, map |-> mp, status |-> "returned_map", blob |-> b]
    ELSE Bind([blob_header_len \in {ntohl(l.bytes)} |->
         Bind([header_buf \in {fread(l.in.data, l.in.pos, blob_header_len)} |->
         Bind([f2 \in {AfterRead(l.in, blob_header_len)} |->
         Bind([b1 \in {Malloc(b, "header_buf")} |->
    IF Len(header_buf) # blob_header_len \/ f2.eof
    THEN ReturnNull(f2, mp, Free(b1, "header_buf"))
    ELSE Bind([hm \in {PB_read_embedded_message(header_buf, blob_header_len, sn)} |->
    IF hm.rc < 0 \/ hm.msg = NULL THEN ReturnNull(f2, mp, Free(b1, "header_buf"))
    ELSE Bind([type_field \in {PB_get_field(hm.heap, hm.msg, 1, LEN_TYPE)} |->
         Bind([datasize_field \in {PB_get_field(hm.heap, hm.msg, 3, VARINT_TYPE)} |->
         Bind([b2 \in {Free(Malloc(b1, "header_msg"), "header_buf")} |->
    IF type_field = NULL \/ datasize_field = NULL
    THEN ReturnNull(f2, mp, Delete(b2, "header_msg", hm.heap, hm.msg))
    ELSE ReadBlobData(f2, mp, sn,
             [Delete(Malloc(b2, "type_str"), "header_msg", hm.heap, hm.msg)
                 EXCEPT !.type = hm.heap[type_field].value.buf,
                        !.datasize = hm.heap[datasize_field].value.i64])])])])])])])])])])])

-----------------------------------------------------------------------------
(* SpecMap: OSM_read_Map on a file of framed blobs.                          *)

MaxBlobs == 2       \* blobs per generated file

U32BE(n) == <<(n \div 16777216) % 256, (n \div 65536) % 256, (n \div 256) % 256, n % 256>>

\* The compressed form zlib_inflate accepts.
Deflate(content) ==
    <<ZlibHeader, Len(content)>> \o content \o <<ByteSum(content) % 256>>

\* HeaderBlock: a HeaderBBox (#1) of four zigzag varints.
BBoxOf(a, b, c, d) ==
    EncMessage(<<VarintField(1, a), VarintField(2, b), VarintField(3, c), VarintField(4, d)>>)
HeaderBlockOf(bbox) == EncMessage(<<LenField(1, bbox)>>)

HeaderA == HeaderBlockOf(BBoxOf(3, 8, 6, 1))
HeaderB == HeaderBlockOf(BBoxOf(2, 4, 4, 2))
HeaderPartial == HeaderBlockOf(EncMessage(<<VarintField(1, 3), VarintField(2, 8)>>))
HeaderBad == HeaderBlockOf(<<8>>)       \* the bbox is a tag without its value

\* PrimitiveBlock: a string table ("", "k", "v"), one group with two dense
\* nodes and one way.
StringTableA == EncMessage(<<LenField(1, <<>>), LenField(1, <<107>>), LenField(1, <<118>>)>>)
DenseA == EncMessage(<<LenField(1, <<2, 2>>), LenField(8, <<4, 1>>), LenField(9, <<6, 2>>)>>)
WayA ==
    EncMessage(<<VarintField(1, 9), LenField(2, <<1>>), LenField(3, <<2>>),
                 LenField(8, <<2, 2>>)>>)
BlockOf(dense, way) ==
    EncMessage(<<LenField(1, StringTableA),
                 LenField(2, EncMessage(<<LenField(2, dense), LenField(3, way)>>))>>)

DataA == BlockOf(DenseA, WayA)
DataBadWay == BlockOf(DenseA, <<8>>)    \* the way is a tag without its value
DataBadGroup == EncMessage(<<LenField(2, <<8>>)>>)

\* A PrimitiveBlock written from its entities: each group is a DenseNodes run
\* of node ids followed by ways, ids and refs delta-coded and zigzagged.
ZigzagInt(n) == IF n >= 0 THEN 2 * n ELSE -2 * n - 1

RECURSIVE DeltaBytes(_, _)
DeltaBytes(xs, prev) ==
    IF xs = <<>> THEN <<>>
    ELSE EncVarint(ZigzagInt(Head(xs) - prev)) \o DeltaBytes(Tail(xs), Head(xs))

DenseOf(ids) ==
    EncMessage(<<LenField(1, DeltaBytes(ids, 0)), LenField(8, DeltaBytes(ids, 0)),
                 LenField(9, DeltaBytes(ids, 0))>>)

WayOf(id, refs) ==
    EncMessage(<<VarintField(1, id), LenField(2, <<1>>), LenField(3, <<2>>),
                 LenField(8, DeltaBytes(refs, 0))>>)

GroupFieldOf(g) ==
    LenField(2, EncMessage(<<LenField(2, DenseOf(g.ids))>> \o
                           [i \in DOMAIN g.ways |-> LenField(3, WayOf(g.ways[i], g.ids))]))

DataOf(groups) ==
    EncMessage(<<LenField(1, StringTableA)>> \o
               [i \in DOMAIN groups |-> GroupFieldOf(groups[i])])

\* The entities of DataA, and a block of two groups whose ids are not in
\* ascending order.
GroupsA == <<[ids |-> <<1, 2>>, ways |-> <<9>>]>>
GroupsB == <<[ids |-> <<5, 6>>, ways |-> <<7>>], [ids |-> <<8, 3>>, ways |-> <<4, 2>>]>>
DataB == DataOf(GroupsB)

UnknownStr == <<79, 83, 77, 120>>       \* "OSMx"
OSMDataNulStr == OSMDataStr \o <<0, 120>>   \* "OSMData", a NUL byte, "x"

\* A framed blob to generate: the type string, the fields of the Blob, and
\* how the BlobHeader states datasize: "ok" (the length of the Blob), "zero"
\* (0, and no Blob follows) or "none" (no datasize field).
BlobOf(type, fields, ds) == [type |-> type, fields |-> fields, ds |-> ds]

BlobChoices ==
    { BlobOf(OSMHeaderStr, <<LenField(1, HeaderA)>>, "ok"),
      BlobOf(OSMHeaderStr, <<VarintField(2, Len(HeaderB)), LenField(3, Deflate(HeaderB))>>, "ok"),
      BlobOf(OSMHeaderStr, <<LenField(1, HeaderPartial)>>, "ok"),
      BlobOf(OSMHeaderStr, <<LenField(1, HeaderBad)>>, "ok"),
      BlobOf(OSMHeaderStr, <<LenField(1, HeaderA), LenField(3, Deflate(HeaderB))>>, "ok"),
      BlobOf(OSMHeaderStr, <<LenField(3, <<ZlibHeader, 9, 1>>)>>, "ok"),
      BlobOf(OSMHeaderStr, <<LenField(4, <<1>>)>>, "ok"),
      BlobOf(OSMHeaderStr, <<LenField(1, HeaderA), VarintField(3, 5)>>, "ok"),
      BlobOf(OSMDataStr, <<LenField(1, DataA)>>, "ok"),
      BlobOf(OSMDataStr, <<LenField(3, Deflate(DataA))>>, "ok"),
      BlobOf(OSMDataStr, <<LenField(1, DataB)>>, "ok"),
      BlobOf(OSMDataStr, <<LenField(1, DataBadWay)>>, "ok"),
      BlobOf(OSMDataStr, <<LenField(1, DataBadGroup)>>, "ok"),
      BlobOf(OSMDataStr, <<LenField(1, DataA), LenField(4, <<1>>)>>, "ok"),
      BlobOf(OSMDataStr, <<VarintField(2, 5)>>, "ok"),
      BlobOf(OSMDataStr, <<>>, "zero"),
      BlobOf(OSMDataStr, <<LenField(1, DataA)>>, "none"),
      BlobOf(UnknownStr, <<LenField(1, DataA)>>, "ok"),
      BlobOf(UnknownStr, <<LenField(3, Deflate(HeaderA))>>, "ok"),
      BlobOf(UnknownStr, <<VarintField(2, 5)>>, "ok"),
      BlobOf(OSMDataNulStr, <<LenField(1, DataA)>>, "ok") }

BlobHeaderOf(d) ==
    EncMessage(<<LenField(1, d.type)>> \o
               (IF d.ds = "none" THEN <<>>
                ELSE <<VarintField(3, IF d.ds = "zero" THEN 0
                                      ELSE Len(EncMessage(d.fields)))>>))

Frame(d) ==
    U32BE(Len(BlobHeaderOf(d))) \o BlobHeaderOf(d) \o
    (IF d.ds = "zero" THEN <<>> ELSE EncMessage(d.fields))

RECURSIVE FileOf(_)
FileOf(ds) == IF ds = <<>> THEN <<>> ELSE Frame(Head(ds)) \o FileOf(Tail(ds))

\* What follows the last blob: nothing, one to three bytes, a zero length,
\* or the length of a BlobHeader that is not there.
Tails == { <<>>, <<0>>, <<0, 0, 1>>, <<0, 0, 0, 0>>, <<0, 0, 0, 5>> }

InitMap ==
    /\ mode = "map"
    /\ ReadIdle
    /\ heap = <<>>
    /\ msg = NULL
    /\ junk \in {-1, 1}
    /\ last = NoOp
    /\ nops = 0
    /\ \E ds \in SeqsUpTo(BlobChoices, MaxBlobs), t \in Tails :
          /\ pre = ds
          /\ in = [data |-> FileOf(ds) \o t, pos |-> 0, eof |-> FALSE]
    /\ map = NoMap
    /\ status = "idle"
    /\ blob = NoBlob

\* Entry of OSM_read_Map: the zeroed OSM_Map.
OSM_read_Map_enter ==
    /\ status = "idle"
    /\ status' = "running"
    /\ map' = NoMap
    /\ UNCHANGED <<mode, codecVars, in, blob>>

\* One iteration of the loop, up to its continue, break or return.
OSM_read_Map_iterate ==
    /\ status = "running"
    /\ \E r \in {OSM_read_Map_loop(in, map, junk)} :
       /\ in' = r.in
       /\ map' = r.map
       /\ status' = r.status
       /\ blob' = r.blob
    /\ nops' = nops + 1
    /\ UNCHANGED <<mode, cdata, clen, cpos, crc, heap, msg, junk, last, pre>>

NextMap == OSM_read_Map_enter \/ OSM_read_Map_iterate

SpecMap == InitMap /\ [][NextMap]_vars

-----------------------------------------------------------------------------
(* Claims about the blob framer.                                             *)

\* The fields numbered num among the fields fs of a message.  A field is
\* present when the last of them is a LEN field; that one holds its payload.
FieldsOf(fs, num) == {i \in 1 .. Len(fs) : fs[i].number = num}

Present(fs, num) ==
    FieldsOf(fs, num) # {} /\ fs[Max(FieldsOf(fs, num))].type = LEN_TYPE

PayloadOf(fs, num) == fs[Max(FieldsOf(fs, num))].value.buf

\* The message a byte string encodes, if it encodes one.
Decoded(bytes, sn) ==
    LET r == PB_read_embedded_message(bytes, Len(bytes), sn) IN
    [ok |-> r.rc >= 0 /\ r.msg # NULL, fields |-> Contents(r.heap, r.msg)]

Remaining(f) == Len(f.data) - f.pos

\* C2: an error inside a decoder aborts the call.  The iteration in which
\* the HeaderBlock or PrimitiveBlock decoder meets a sub-message (HeaderBBox,
\* StringTable, PrimitiveGroup, DenseNodes, Way) that violates the wire format
\* ends OSM_read_Map with NULL, so no Map filled from that blob is returned.
C2_DecoderErrorAbortsReadMap == blob.err => status = "returned_null"

\* C3: where the framer reads the 4-byte header length, zero remaining bytes
\* end the loop with the Map returned as it is, and one to three remaining
\* bytes make OSM_read_Map return NULL.
C3_ShortLengthReadFails ==
    [][status = "running" =>
          /\ Remaining(in) = 0 => status' = "returned_map" /\ map' = map
          /\ Remaining(in) \in 1 .. 3 => status' = "returned_null"]_vars

\* The first half of C3 alone: a clean end of file ends the loop and the Map
\* is returned unchanged.
CleanEndOfFileReturnsMap ==
    [][status = "running" /\ Remaining(in) = 0
          => status' = "returned_map" /\ map' = map]_vars

\* C4: for every parsed Blob the inner message is the one decoded from the
\* inflated zlib_data (#3) when that field is present, else the one decoded
\* from raw (#1) when that is present; when neither is present, or the chosen
\* field yields no message, OSM_read_Map returns NULL.
C4_InnerMessageFromZlibElseRaw ==
    blob.parsed =>
        LET z == zlib_inflate(PayloadOf(blob.fields, 3))
            src == IF Present(blob.fields, 3)
                   THEN [from |-> "zlib", ok |-> z.rc = Z_OK, bytes |-> z.out]
                   ELSE IF Present(blob.fields, 1)
                   THEN [from |-> "raw", ok |-> TRUE, bytes |-> PayloadOf(blob.fields, 1)]
                   ELSE [from |-> "none", ok |-> FALSE, bytes |-> <<>>]
            ref == Decoded(src.bytes, junk)
        IN /\ blob.inner = src.from
           /\ blob.got = (src.ok /\ ref.ok)
           /\ blob.got => blob.imsg = ref.fields
           /\ ~blob.got => status = "returned_null"

\* A Blob carrying both raw and zlib_data, of different content, has been
\* materialised and its HeaderBlock decoded.
C4_Witness ==
    /\ blob.got
    /\ Present(blob.fields, 1)
    /\ Present(blob.fields, 3)
    /\ PayloadOf(blob.fields, 1) # zlib_inflate(PayloadOf(blob.fields, 3)).out
    /\ map.bbox # <<>>

\* C5: a parsed Blob that carries one of the fields #4 to #6 is rejected,
\* whatever else it carries: OSM_read_Map returns NULL.
C5_ExtraCompressionRejected ==
    (blob.parsed /\ \E i \in 1 .. Len(blob.fields) : blob.fields[i].number \in 4 .. 6)
        => status = "returned_null"

\* C6: in an iteration that materialised the inner message of a blob, type
\* "OSMHeader" goes to the HeaderBlock decoder (which leaves nodes and ways
\* alone), type "OSMData" to the PrimitiveBlock decoder (which leaves the bbox
\* alone), and any other type string is skipped: the Map is unchanged,
\* OSM_read_Map does not return, and the stream stands at the next blob.
C6_DispatchOnTypeUnknownSkipped ==
    [][(status = "running" /\ blob'.got) =>
          /\ blob'.type = OSMHeaderStr =>
                blob'.dispatch = "header" /\ map'.nodes = map.nodes /\ map'.ways = map.ways
          /\ blob'.type = OSMDataStr => blob'.dispatch = "data" /\ map'.bbox = map.bbox
          /\ blob'.type \notin {OSMHeaderStr, OSMDataStr} =>
                /\ blob'.dispatch = "skip"
                /\ map' = map
                /\ status' = "running"
                /\ in'.pos = in.pos + 4 + ntohl(blob'.hlen) + blob'.datasize]_vars

\* What holds instead: the dispatch is on the type read as a C string, the
\* bytes before its first NUL.
DispatchOnCStringType ==
    [][(status = "running" /\ blob'.got) =>
          /\ strdup(blob'.type) = OSMHeaderStr => blob'.dispatch = "header"
          /\ strdup(blob'.type) = OSMDataStr => blob'.dispatch = "data"
          /\ strdup(blob'.type) \notin {OSMHeaderStr, OSMDataStr} =>
                /\ blob'.dispatch = "skip"
                /\ map' = map
                /\ status' = "running"
                /\ in'.pos = in.pos + 4 + ntohl(blob'.hlen) + blob'.datasize]_vars

-----------------------------------------------------------------------------
(* 64-bit words.  A uint64_t or int64_t is the sequence of its WordBits      *)
(* bits, least significant first; an int64_t is in two's complement.         *)

WordBits == 64

Bit(n, k) == (n \div (2 ^ k)) % 2

Zero64 == [i \in 1 .. WordBits |-> 0]

\* The word of an integer 0 <= n < 2^31.
U64(n) == [i \in 1 .. WordBits |-> IF i <= 31 THEN Bit(n, i - 1) ELSE 0]

\* result | ((uint64_t)(g) << shift) for a 7-bit group g: the bits of g that
\* the shift moves beyond bit 63 are lost.
OrShl(result, g, shift) ==
    [i \in 1 .. WordBits |->
        IF i - 1 >= shift /\ i - 1 < shift + 7 /\ Bit(g, i - 1 - shift) = 1
        THEN 1 ELSE result[i]]

\* The varint loop of the VARINT branch of PB_read_value, result at its full
\* width.  ReadVarint64 is this loop for the results below 2^31.
RECURSIVE ReadVarintWord(_, _, _, _, _, _)
ReadVarintWord(data, pos, result, shift, total_bytes, varint_len) ==
    LET c == fgetc(data, pos) IN
    IF c = EOF THEN [rc |-> -1, val |-> Zero64, pos |-> pos]
    ELSE IF c \div 128 = 0
         THEN [rc |-> total_bytes + 1, val |-> OrShl(result, c % 128, shift),
               pos |-> pos + 1]
         ELSE IF shift + 7 >= 64 \/ varint_len > 10
              THEN [rc |-> -1, val |-> Zero64, pos |-> pos + 1]
              ELSE ReadVarintWord(data, pos + 1, OrShl(result, c % 128, shift),
                                  shift + 7, total_bytes + 1, varint_len + 1)

-----------------------------------------------------------------------------
(* SpecWire: PB_read_tag, PB_read_value, PB_read_field and                   *)
(* PB_read_embedded_message, each called once on a stream.  The stream is    *)
(* either a run of continuation bytes closed or not by a last byte (pre is   *)
(* empty), or the wire encoding of the field in pre, whole or cut short, or  *)
(* whole and followed by one more byte.                                      *)

MaxVarintBytes == 11     \* continuation bytes at the head of a generated stream

Fill(c, n) == [i \in 1 .. n |-> c]

LastBytes == { <<>>, <<0>>, <<1>>, <<2>>, <<13>>, <<14>>, <<16>>, <<127>> }

VarintStreams ==
    { Fill(c, k) \o t : k \in 0 .. MaxVarintBytes, c \in {128, 129, 255}, t \in LastBytes }

\* Fields to encode: the four wire types, the least and the greatest field
\* number, values of one and of several bytes.
WireFieldChoices ==
    { VarintField(1, 5), VarintField(2, 300), VarintField(268435455, 1),
      LenField(1, <<>>), LenField(2, <<172, 2>>), LenField(268435455, <<7>>),
      FixedField(1, I32_TYPE, 1), FixedField(2, I32_TYPE, 16909060),
      FixedField(1, I64_TYPE, 258), FixedField(268435455, I64_TYPE, 1) }

\* The byte that follows a whole field in the stream: the start of a tag, or
\* one of the two bytes PB_read_field looks for.
FollowingBytes == {0, 7, 8, 255}

InitWire ==
    /\ mode = "wire"
    /\ MapIdle
    /\ junk \in {-1, 1}
    /\ \/ pre = <<>> /\ cdata \in VarintStreams
       \/ \E f \in WireFieldChoices : \E n \in 0 .. Len(EncField(f)) :
             /\ pre = <<f>>
             /\ cdata = SubSeq(EncField(f), 1, n)
       \/ \E f \in WireFieldChoices, t \in FollowingBytes :
             /\ pre = <<f>>
             /\ cdata = EncField(f) \o <<t>>
    /\ clen = Len(cdata)
    /\ cpos = 0
    /\ crc = 0
    /\ heap = <<>>
    /\ msg = NULL
    /\ last = NoOp
    /\ nops = 0

\* The stream is a field of pre, whole or cut short, or is empty: its values
\* are below 2^31.
SmallValues == pre # <<>> \/ cdata = <<>>

ReadTag ==
    /\ last.op = "none"
    /\ \E t \in {PB_read_tag(cdata, cpos)} :
       /\ crc' = t.rc
       /\ cpos' = t.pos
       /\ last' = [op |-> "tag", type |-> t.type, number |-> t.number]
    /\ UNCHANGED <<mode, cdata, clen, heap, msg, junk, pre, nops, mapVars>>

\* PB_read_value(in, VARINT_TYPE, valuep): valuep->i64 = result.
ReadVarintValue ==
    /\ last.op = "none"
    /\ \E r \in {ReadVarintWord(cdata, cpos, Zero64, 0, 0, 0)} :
       /\ crc' = r.rc
       /\ cpos' = r.pos
       /\ last' = [op |-> "value", i64 |-> r.val]
    /\ UNCHANGED <<mode, cdata, clen, heap, msg, junk, pre, nops, mapVars>>

ReadField ==
    /\ last.op = "none"
    /\ SmallValues
    /\ \E f \in {PB_read_field(cdata, cpos)} :
       /\ crc' = f.rc
       /\ cpos' = f.pos
       /\ last' = [op |-> "field", type |-> f.type, number |-> f.number,
                   value |-> f.value]
    /\ UNCHANGED <<mode, cdata, clen, heap, msg, junk, pre, nops, mapVars>>

ReadEmbedded ==
    /\ last.op = "none"
    /\ SmallValues
    /\ \E r \in {PB_read_embedded_message(cdata, clen, junk)} :
       /\ crc' = r.rc
       /\ heap' = r.heap
       /\ msg' = r.msg
       /\ last' = [op |-> "embedded"]
    /\ UNCHANGED <<mode, cdata, clen, cpos, junk, pre, nops, mapVars>>

NextWire == ReadTag \/ ReadVarintValue \/ ReadField \/ ReadEmbedded

SpecWire == InitWire /\ [][NextWire]_vars

-----------------------------------------------------------------------------
(* Claims about the readers of tags, values and fields.                     *)

\* The number of continuation bytes (high bit set) at the head of stream e.
LeadLen(e) ==
    IF \A i \in 1 .. Len(e) : e[i] >= 128 THEN Len(e)
    ELSE MinOf({i \in 1 .. Len(e) : e[i] < 128}) - 1

\* The 7-bit group that byte j (from 1) of a varint of n bytes contributes.
GroupAt(e, j, n) == IF j <= n /\ j <= Len(e) THEN e[j] % 128 ELSE 0

\* Bits 3 to 27 of the varint of n bytes at the head of e: its field number
\* modulo 2^25.  Bits 28 and up are the group of the fifth byte.
NumberLow(e, n) ==
    (GroupAt(e, 1, n) \div 8) + GroupAt(e, 2, n) * 16 + GroupAt(e, 3, n) * 2048
       + GroupAt(e, 4, n) * 262144

\* What PB_read_tag is to return for the tag varint of LeadLen + 1 bytes at
\* the head of the stream.
TagSplitOf(e) ==
    /\ crc = LeadLen(e) + 1
    /\ last.type = e[1] % 8
    /\ last.number % 33554432 = NumberLow(e, LeadLen(e) + 1)
    /\ last.number \div 33554432 = GroupAt(e, 5, LeadLen(e) + 1)

\* C12: PB_read_tag returns -1 when the tag varint is longer than five bytes,
\* when the stream ends inside the varint, and when the low three bits of the
\* tag are above 5; otherwise it returns the number of bytes of the varint,
\* the wire type tag mod 8 and the field number tag div 8.
C12_ReadTagErrorsAndSplit ==
    last.op = "tag" /\ cdata # <<>> =>
       IF LeadLen(cdata) >= 5 THEN crc = -1
       ELSE IF LeadLen(cdata) = Len(cdata) THEN crc = -1
       ELSE IF cdata[1] % 8 > 5 THEN crc = -1
       ELSE TagSplitOf(cdata)

\* The same for the tags below 2^32 (a fifth byte below 16): what the code
\* does deliver.
ReadTagOfTagsBelow32Bits ==
    last.op = "tag" /\ cdata # <<>> /\ GroupAt(cdata, 5, LeadLen(cdata) + 1) < 16 =>
       IF LeadLen(cdata) >= 5 THEN crc = -1
       ELSE IF LeadLen(cdata) = Len(cdata) THEN crc = -1
       ELSE IF cdata[1] % 8 > 5 THEN crc = -1
       ELSE TagSplitOf(cdata)

\* C13: at the end of the stream before any byte of a field, PB_read_tag and
\* PB_read_field return 0; for an error, and for an end of the stream after
\* one byte or more, they return -1.
C13_ImmediateEndOfInputIsZero ==
    last.op \in {"tag", "field"} =>
       /\ cdata = <<>> => crc = 0
       /\ cdata # <<>> /\ crc <= 0 => crc = -1

\* The number of bytes of the varint at the head of e.
VarintBytes(e) == LeadLen(e) + 1

\* The value of the varint at the head of e, while it is below 2^64.
VarintWord(e) ==
    [i \in 1 .. WordBits |-> Bit(GroupAt(e, ((i - 1) \div 7) + 1, VarintBytes(e)), (i - 1) % 7)]

Overflows64(e) == VarintBytes(e) >= 10 /\ e[10] % 128 > 1

\* C14: PB_read_value(VARINT) on a varint of at most ten bytes whose value is
\* below 2^64 returns the number of its bytes and that value; on a varint of
\* more than ten bytes, and on one whose tenth byte carries bits above bit 63,
\* it returns -1.
C14_VarintValueWithin64Bits ==
    last.op = "value" /\ LeadLen(cdata) < Len(cdata) =>
       /\ VarintBytes(cdata) <= 10 /\ ~Overflows64(cdata) =>
             crc = VarintBytes(cdata) /\ last.i64 = VarintWord(cdata)
       /\ VarintBytes(cdata) > 10 => crc = -1
       /\ Overflows64(cdata) => crc = -1

\* The same without the overflow of the tenth byte: what the code does deliver.
VarintValueByLength ==
    last.op = "value" /\ LeadLen(cdata) < Len(cdata) =>
       /\ VarintBytes(cdata) <= 10 /\ ~Overflows64(cdata) =>
             crc = VarintBytes(cdata) /\ last.i64 = VarintWord(cdata)
       /\ VarintBytes(cdata) > 10 => crc = -1

\* ReadVarintWord and ReadVarint64 are the same loop: they agree on the
\* varints below 2^31.
RECURSIVE WordInt(_, _)
WordInt(w, i) ==
    IF i > 31 THEN 0 ELSE (IF w[i] = 1 THEN 2 ^ (i - 1) ELSE 0) + WordInt(w, i + 1)

VarintLoopsAgree ==
    \A e \in { EncVarint(n) : n \in {0, 1, 127, 128, 300, 16909060, 2147483647} } :
       LET w == ReadVarintWord(e, 0, Zero64, 0, 0, 0)
           r == ReadVarint64(e, 0, 0, 0, 0, 0)
       IN w.rc = r.rc /\ w.pos = r.pos /\ WordInt(w.val, 1) = r.val /\ w.val = U64(r.val)

\* The call read the whole encoding of field f and returned f.
ReadBack(f) ==
    /\ crc = Len(EncField(f))
    /\ cpos = Len(EncField(f))
    /\ last.number = f.number
    /\ last.type = f.type
    /\ last.value = f.value

\* C15: PB_read_field on the standard encoding of a field with a number in
\* [1, 2^28) and wire type VARINT, I64, LEN or I32 returns a field with the
\* same number, wire type and value; an I64 value is read from 8 little-endian
\* bytes and an I32 value from 4.
C15_FieldRoundTrip ==
    last.op = "field" /\ pre # <<>> /\ cdata = EncField(pre[1]) => ReadBack(pre[1])

\* The same for the wire types VARINT and LEN: what the code does deliver.
RoundTripOfVarintAndLen ==
    /\ last.op = "field"
    /\ pre # <<>>
    /\ cdata = EncField(pre[1])
    /\ pre[1].type \in {VARINT_TYPE, LEN_TYPE}
    => ReadBack(pre[1])

\* C16: PB_read_embedded_message on a buffer of length 0 returns 0 and a
\* message without fields.
C16_EmptyMessageIsEmptyFieldList ==
    last.op = "embedded" /\ clen = 0 =>
       /\ crc = 0
       /\ msg # NULL
       /\ Contents(heap, msg) = <<>>

-----------------------------------------------------------------------------
(* SpecZigzag: zigzag_decode at the width of its int64_t argument.  The     *)
(* right shift of a negative int64_t copies the sign bit, as the compilers   *)
(* of the build define it.                                                   *)

Xor(a, b) == [i \in 1 .. WordBits |-> (a[i] + b[i]) % 2]

\* val >> k for an int64_t val and 1 <= k < 64.
Sar(val, k) == [i \in 1 .. WordBits |-> IF i + k <= WordBits THEN val[i + k] ELSE val[WordBits]]

\* val << 1.
Shl1(val) == [i \in 1 .. WordBits |-> IF i = 1 THEN 0 ELSE val[i - 1]]

\* -(val & 1): zero, or all the bits set.
NegLowBit(val) == [i \in 1 .. WordBits |-> val[1]]

\* (val >> 1) ^ -(val & 1) on the 64 bits of val; zigzag_decode is this
\* function on the integers 0 <= val < 2^31.
zigzag_decode_word(val) == Xor(Sar(val, 1), NegLowBit(val))

\* (n << 1) ^ (n >> 63), as an unsigned 64-bit value.
zigzag_encode(n) == Xor(Shl1(n), Sar(n, 63))

OneBit(k) == [i \in 1 .. WordBits |-> IF i = k + 1 THEN 1 ELSE 0]
Not64(w) == [i \in 1 .. WordBits |-> 1 - w[i]]

\* 2^k and -2^k - 1 for every k, 0 and -1: INT64_MIN is OneBit(63), INT64_MAX
\* its complement.
ZigzagInputs ==
    {Zero64, Not64(Zero64)} \cup {OneBit(k) : k \in 0 .. WordBits - 1}
       \cup {Not64(OneBit(k)) : k \in 0 .. WordBits - 1}

InitZigzag ==
    /\ mode = "zigzag"
    /\ MapIdle
    /\ ReadIdle
    /\ junk \in {-1, 1}
    /\ \E n \in ZigzagInputs : pre = <<n>>
    /\ heap = <<>>
    /\ msg = NULL
    /\ last = NoOp
    /\ nops = 0

\* zigzag_decode on the encoding of the number in pre.
ZigzagDecode ==
    /\ last.op = "none"
    /\ last' = [op |-> "zigzag", arg |-> zigzag_encode(pre[1]),
                res |-> zigzag_decode_word(zigzag_encode(pre[1]))]
    /\ UNCHANGED <<mode, cdata, clen, cpos, crc, heap, msg, junk, pre, nops, mapVars>>

NextZigzag == ZigzagDecode

SpecZigzag == InitZigzag /\ [][NextZigzag]_vars

\* C17: zigzag_decode(zigzag_encode(n)) = n for every signed 64-bit n,
\* INT64_MIN and INT64_MAX included.
C17_ZigzagRoundTrip == last.op = "zigzag" => last.res = pre[1]

\* The same for -2^62 <= n < 2^62, the numbers whose encoding is below 2^63:
\* what the code does deliver.
ZigzagRoundTripBelow62Bits ==
    last.op = "zigzag" /\ last.arg[WordBits] = 0 => last.res = pre[1]

\* The integer of a word below 2^31, or of the complement of one.
SignedInt(w) == IF w[WordBits] = 0 THEN WordInt(w, 1) ELSE -WordInt(Not64(w), 1) - 1

\* zigzag_decode_word and zigzag_decode agree on the integers below 2^31.
ZigzagDecodersAgree ==
    \A val \in {0, 1, 2, 3, 4, 5, 300, 301, 16909060, 2147483645, 2147483646} :
       SignedInt(zigzag_decode_word(U64(val))) = zigzag_decode(val)

-----------------------------------------------------------------------------
(* int64_t arithmetic on words.                                              *)

RECURSIVE AddBits(_, _, _, _)
AddBits(a, b, i, carry) ==
    IF i > WordBits THEN <<>>
    ELSE <<(a[i] + b[i] + carry) % 2>> \o
         AddBits(a, b, i + 1, (a[i] + b[i] + carry) \div 2)

\* a + b modulo 2^64.
Add64(a, b) == Bind([s \in {AddBits(a, b, 1, 0)} |-> [i \in 1 .. WordBits |-> s[i]]])

\* a + b leaves the range of int64_t, where the += of the decoders is undefined.
AddOverflows(a, b) == a[WordBits] = b[WordBits] /\ Add64(a, b)[WordBits] # a[WordBits]

Sub64(a, b) == Add64(a, Add64(Not64(b), U64(1)))

\* The word of an integer -2^31 <= n < 2^31.
I64(n) == IF n >= 0 THEN U64(n) ELSE Not64(U64(-n - 1))

\* 2^k - 1.
LowBits(k) == [i \in 1 .. WordBits |-> IF i <= k THEN 1 ELSE 0]

-----------------------------------------------------------------------------
(* The wire codec with VARINT values at their full width.  A message is the  *)
(* list of its fields in insertion order, a field is [number, type, value]   *)
(* and value.i64 is a word.  The heap of the codec above carries the same    *)
(* lists with value.i64 an integer below 2^31.                               *)

PB_read_value_wide(data, pos, type) ==
    IF type = VARINT_TYPE
    THEN Bind([r \in {ReadVarintWord(data, pos, Zero64, 0, 0, 0)} |->
         [rc |-> r.rc, pos |-> r.pos,
          value |-> [i64 |-> r.val, buf |-> <<>>, size |-> 0]]])
    ELSE Bind([v \in {PB_read_value(data, pos, type)} |->
         [rc |-> v.rc, pos |-> v.pos, value |-> [v.value EXCEPT !.i64 = Zero64]]])

PB_read_field_wide(data, pos) ==
    Bind([t \in {PB_read_tag(data, pos)} |->
    IF t.rc <= 0 THEN [rc |-> -1, pos |-> t.pos, field |-> <<>>]
    ELSE Bind([v \in {PB_read_value_wide(data, t.pos, t.type)} |->
         IF v.rc <= 0 THEN [rc |-> -1, pos |-> v.pos, field |-> <<>>]
         ELSE LET peeked == Min(4, Len(data) - v.pos)
                  skip == peeked > 0 /\ (data[v.pos + 1] = 7 \/ data[v.pos + 1] = 255)
              IN [rc |-> t.rc + v.rc,
                  pos |-> IF skip THEN v.pos + 1 ELSE v.pos,
                  field |-> <<[number |-> t.number, type |-> t.type,
                               value |-> v.value]>>]])])

NoWideMessage == [rc |-> -1, fields |-> <<>>]

RECURSIVE PB_read_message_wide_loop(_, _, _, _, _)
PB_read_message_wide_loop(data, pos, len, total_read, fs) ==
    IF total_read < len
    THEN Bind([f \in {PB_read_field_wide(data, pos)} |->
         IF f.rc <= 0 THEN NoWideMessage
         ELSE PB_read_message_wide_loop(data, f.pos, len, total_read + f.rc,
                                        fs \o f.field)])
    ELSE IF total_read # len THEN NoWideMessage
         ELSE [rc |-> 0, fields |-> fs]

PB_read_embedded_message_wide(buf, len) ==
    IF len = 0 THEN NoWideMessage
    ELSE IF len = 9 /\ SubSeq(buf, 1, 9) = OSMHeaderStr THEN NoWideMessage
    ELSE PB_read_message_wide_loop(SubSeq(buf, 1, len), 0, len, 0, <<>>)

\* PB_get_field: the index of the last field numbered fnum, NULL when there
\* is none or when it has another type.
PB_get_field_wide(fs, fnum, type) ==
    Bind([S \in {{i \in 1 .. Len(fs) : fs[i].number = fnum}} |->
    IF S = {} THEN NULL
    ELSE IF type # ANY_TYPE /\ fs[Max(S)].type # type THEN NULL
    ELSE Max(S)])

\* The fields a PB_next_field loop from the head visits, in order.
RECURSIVE FieldLoopWide(_, _, _)
FieldLoopWide(fs, fnum, type) ==
    IF fs = <<>> THEN <<>>
    ELSE (IF Head(fs).number = fnum /\ Head(fs).type = type THEN <<Head(fs)>> ELSE <<>>)
         \o FieldLoopWide(Tail(fs), fnum, type)

\* The inner loop of PB_expand_packed_fields for VARINT values.
RECURSIVE UnpackWords(_, _, _)
UnpackWords(buf, pos, acc) ==
    Bind([v \in {PB_read_value_wide(buf, pos, VARINT_TYPE)} |->
    IF v.rc <= 0 THEN acc
    ELSE UnpackWords(buf, v.pos, Append(acc, v.value))])

\* PB_expand_packed_fields(msg, fnum, VARINT_TYPE) on the list: done are the
\* fields already passed, fs the fields to come.  A packed field without a
\* complete value ends the call and stays in the list.
RECURSIVE PB_expand_wide_loop(_, _, _)
PB_expand_wide_loop(done, fs, fnum) ==
    IF fs = <<>> THEN done
    ELSE IF Head(fs).number = fnum /\ Head(fs).type = LEN_TYPE
    THEN Bind([vals \in {UnpackWords(Head(fs).value.buf, 0, <<>>)} |->
         IF vals = <<>> THEN done \o fs
         ELSE PB_expand_wide_loop(
                 done \o [i \in 1 .. Len(vals) |->
                             [number |-> fnum, type |-> VARINT_TYPE, value |-> vals[i]]],
                 Tail(fs), fnum)])
    ELSE PB_expand_wide_loop(Append(done, Head(fs)), Tail(fs), fnum)

PB_expand_packed_fields_wide(fs, fnum) == PB_expand_wide_loop(<<>>, fs, fnum)

-----------------------------------------------------------------------------
(* The domain decoders at the width of int64_t.  ub records that a += left   *)
(* the range of int64_t.  A way is [id, num_keys, num_refs, refs]: the       *)
(* strings of its keys and values are the business of ParseWay.              *)

parse_HeaderBlock_wide(pb_msg, mp) ==
    Bind([bbox_field \in {PB_get_field_wide(pb_msg, 1, LEN_TYPE)} |->
    IF bbox_field = NULL THEN [rc |-> 0, map |-> mp]
    ELSE Bind([b \in {PB_read_embedded_message_wide(pb_msg[bbox_field].value.buf,
                                                    pb_msg[bbox_field].value.size)} |->
    IF b.rc < 0 THEN [rc |-> -1, map |-> mp]
    ELSE LET min_lon_f == PB_get_field_wide(b.fields, 1, VARINT_TYPE)
             max_lon_f == PB_get_field_wide(b.fields, 2, VARINT_TYPE)
             max_lat_f == PB_get_field_wide(b.fields, 3, VARINT_TYPE)
             min_lat_f == PB_get_field_wide(b.fields, 4, VARINT_TYPE)
         IN IF min_lon_f = NULL \/ max_lon_f = NULL \/ max_lat_f = NULL \/ min_lat_f = NULL
            THEN [rc |-> 0, map |-> mp]
            ELSE [rc |-> 0,
                  map |-> [mp EXCEPT !.bbox =
                     << [min_lon |-> zigzag_decode_word(b.fields[min_lon_f].value.i64),
                         max_lon |-> zigzag_decode_word(b.fields[max_lon_f].value.i64),
                         max_lat |-> zigzag_decode_word(b.fields[max_lat_f].value.i64),
                         min_lat |-> zigzag_decode_word(b.fields[min_lat_f].value.i64)] >>]]])])

RECURSIVE WayRefLoopWide(_, _, _)
WayRefLoopWide(rfs, running, refs_array) ==
    IF rfs = <<>> THEN [refs |-> refs_array, ub |-> FALSE]
    ELSE Bind([delta \in {zigzag_decode_word(Head(rfs).value.i64)} |->
         Bind([r \in {WayRefLoopWide(Tail(rfs), Add64(running, delta),
                                     Append(refs_array, Add64(running, delta)))} |->
         [r EXCEPT !.ub = @ \/ AddOverflows(running, delta)]])])

ParseWayWide(way_msg, mp) ==
    Bind([id_f \in {PB_get_field_wide(way_msg, 1, VARINT_TYPE)} |->
    IF id_f = NULL THEN [map |-> mp, ub |-> FALSE]
    ELSE Bind([m2 \in {PB_expand_packed_fields_wide(way_msg, 2)} |->
         Bind([m3 \in {PB_expand_packed_fields_wide(m2, 3)} |->
         Bind([m8 \in {PB_expand_packed_fields_wide(m3, 8)} |->
         Bind([rfs \in {FieldLoopWide(m8, 8, VARINT_TYPE)} |->
         Bind([r \in {WayRefLoopWide(rfs, Zero64, <<>>)} |->
         [map |-> [mp EXCEPT !.ways =
                      Append(@, [id |-> way_msg[id_f].value.i64,
                                 num_keys |-> Len(FieldLoopWide(m8, 2, VARINT_TYPE)),
                                 num_refs |-> Len(rfs), refs |-> r.refs])],
          ub |-> r.ub]])])])])])])

RECURSIVE parse_ways_wide_loop(_, _)
parse_ways_wide_loop(ws, mp) ==
    IF ws = <<>> THEN [map |-> mp, ub |-> FALSE]
    ELSE Bind([w \in {PB_read_embedded_message_wide(Head(ws).value.buf,
                                                    Head(ws).value.size)} |->
         IF w.rc < 0 THEN parse_ways_wide_loop(Tail(ws), mp)
         ELSE Bind([p \in {ParseWayWide(w.fields, mp)} |->
              Bind([rest \in {parse_ways_wide_loop(Tail(ws), p.map)} |->
              [rest EXCEPT !.ub = @ \/ p.ub]])])])

parse_ways_in_group_wide(group_msg, mp) ==
    parse_ways_wide_loop(FieldLoopWide(group_msg, 3, LEN_TYPE), mp)

RECURSIVE DenseLoopWide(_, _, _, _, _, _, _, _)
DenseLoopWide(ids, lats, lons, last_id, last_lat, last_lon, mp, num_nodes) ==
    IF ids = <<>> \/ lats = <<>> \/ lons = <<>>
    THEN [rc |-> num_nodes, map |-> mp, ub |-> FALSE]
    ELSE Bind([d \in {[id |-> zigzag_decode_word(Head(ids).value.i64),
                       lat |-> zigzag_decode_word(Head(lats).value.i64),
                       lon |-> zigzag_decode_word(Head(lons).value.i64)]} |->
         Bind([n \in {[id |-> Add64(last_id, d.id), lat |-> Add64(last_lat, d.lat),
                       lon |-> Add64(last_lon, d.lon)]} |->
         Bind([r \in {DenseLoopWide(Tail(ids), Tail(lats), Tail(lons), n.id, n.lat, n.lon,
                                    [mp EXCEPT !.nodes = Append(@, n)], num_nodes + 1)} |->
         [r EXCEPT !.ub = @ \/ AddOverflows(last_id, d.id) \/ AddOverflows(last_lat, d.lat)
                              \/ AddOverflows(last_lon, d.lon)]])])])

parse_nodes_in_group_wide(group_msg, mp) ==
    Bind([dense_field \in {PB_get_field_wide(group_msg, 2, LEN_TYPE)} |->
    IF dense_field = NULL THEN [rc |-> 0, map |-> mp, ub |-> FALSE]
    ELSE Bind([d \in {PB_read_embedded_message_wide(group_msg[dense_field].value.buf,
                                                    group_msg[dense_field].value.size)} |->
    IF d.rc < 0 THEN [rc |-> -1, map |-> mp, ub |-> FALSE]
    ELSE Bind([m1 \in {PB_expand_packed_fields_wide(d.fields, 1)} |->
         Bind([m8 \in {PB_expand_packed_fields_wide(m1, 8)} |->
         Bind([m9 \in {PB_expand_packed_fields_wide(m8, 9)} |->
         DenseLoopWide(FieldLoopWide(m9, 1, VARINT_TYPE), FieldLoopWide(m9, 8, VARINT_TYPE),
                       FieldLoopWide(m9, 9, VARINT_TYPE), Zero64, Zero64, Zero64, mp, 0)])])])])])

-----------------------------------------------------------------------------
(* SpecDecode: parse_HeaderBlock on a HeaderBlock, then the body of the      *)
(* group loop of parse_PrimitiveBlock on each PrimitiveGroup in turn.  The   *)
(* messages are the encodings of the numbers in pre: zigzag for the bounding *)
(* box, delta and zigzag in packed fields for the nodes and the refs.        *)

MaxGroups == 2      \* PrimitiveGroups per generated block

GroupBit(w, i) == IF i <= WordBits THEN w[i] ELSE 0

\* The 7-bit group k of w.
Group7(w, k) ==
    GroupBit(w, 7 * k + 1) + 2 * GroupBit(w, 7 * k + 2) + 4 * GroupBit(w, 7 * k + 3)
    + 8 * GroupBit(w, 7 * k + 4) + 16 * GroupBit(w, 7 * k + 5)
    + 32 * GroupBit(w, 7 * k + 6) + 64 * GroupBit(w, 7 * k + 7)

\* The number of significant bits of w.
TopBit(w) == IF w = Zero64 THEN 0 ELSE Max({i \in 1 .. WordBits : w[i] = 1})

\* The varint of the unsigned value of w, shortest form.
RECURSIVE EncVarintWordFrom(_, _)
EncVarintWordFrom(w, k) ==
    IF TopBit(w) <= 7 * (k + 1) THEN <<Group7(w, k)>>
    ELSE <<128 + Group7(w, k)>> \o EncVarintWordFrom(w, k + 1)

EncVarintWord(w) == EncVarintWordFrom(w, 0)

\* x0 - prev, x1 - x0, ...
RECURSIVE Deltas(_, _)
Deltas(xs, prev) ==
    IF xs = <<>> THEN <<>> ELSE <<Sub64(Head(xs), prev)>> \o Deltas(Tail(xs), Head(xs))

\* The packed field of the sequence xs: the varints of the zigzag of its deltas.
RECURSIVE PackedWords(_)
PackedWords(ds) ==
    IF ds = <<>> THEN <<>>
    ELSE EncVarintWord(zigzag_encode(Head(ds))) \o PackedWords(Tail(ds))

PackedDeltas(xs) == PackedWords(Deltas(xs, Zero64))

\* A packed field is written only for a sequence that is not empty.
PackedField(number, xs) == IF xs = <<>> THEN <<>> ELSE <<LenField(number, PackedDeltas(xs))>>

\* A bounding box to encode: kind "full" (fields 1 to 4 from v), "partial"
\* (fields 1 and 2 only), "empty" (a HeaderBBox of length 0) or "absent".
BBoxBytes(d) ==
    <<8>> \o EncVarintWord(zigzag_encode(d.v[1])) \o
    <<16>> \o EncVarintWord(zigzag_encode(d.v[2])) \o
    (IF d.kind = "full"
     THEN <<24>> \o EncVarintWord(zigzag_encode(d.v[3])) \o
          <<32>> \o EncVarintWord(zigzag_encode(d.v[4]))
     ELSE <<>>)

HeaderBytes(d) ==
    IF d.kind = "absent" THEN EncMessage(<<LenField(4, <<120>>)>>)
    ELSE IF d.kind = "empty" THEN EncMessage(<<LenField(1, <<>>)>>)
    ELSE EncMessage(<<LenField(1, BBoxBytes(d))>>)

\* A group to encode: the ids, lats and lons of its dense nodes and the refs of
\* its one way (id 9).  No DenseNodes is written for a group without nodes.
DenseBytes(g) ==
    EncMessage(PackedField(1, g.ids) \o PackedField(8, g.lats) \o PackedField(9, g.lons))

WayBytes(g) == EncMessage(<<VarintField(1, 9)>> \o PackedField(8, g.refs))

GroupBytes(g) ==
    EncMessage((IF g.ids = <<>> THEN <<>> ELSE <<LenField(2, DenseBytes(g))>>)
               \o <<LenField(3, WayBytes(g))>>)

Words(ns) == [i \in 1 .. Len(ns) |-> I64(ns[i])]

GroupOf(ids, lats, lons, refs) == [ids |-> ids, lats |-> lats, lons |-> lons, refs |-> refs]

\* Small numbers of both signs, the numbers at and next to the ends of the
\* range, and two groups whose ids, lats and lons differ in length: INT64_MIN is OneBit(63), INT64_MAX its complement, 2^62 is
\* OneBit(62), and LowBits(62) is 2^62 - 1.
GroupChoices ==
    { GroupOf(Words(<<1, 2>>), Words(<<10, 8>>), Words(<<-5, -4>>), Words(<<1, 2, 1>>)),
      GroupOf(Words(<<7>>), Words(<<-1>>), Words(<<0>>), Words(<<7>>)),
      GroupOf(<<>>, <<>>, <<>>, Words(<<300, 4>>)),
      GroupOf(Words(<<3, 1, 2>>), Words(<<0, 0, 0>>), Words(<<-9, 9, -9>>), <<>>),
      GroupOf(<<Not64(LowBits(62))>>, <<LowBits(62)>>, Words(<<1>>),
              <<LowBits(62), LowBits(62)>>),
      GroupOf(<<OneBit(62)>>, Words(<<1>>), Words(<<1>>), Words(<<5>>)),
      GroupOf(Words(<<5>>), <<Not64(OneBit(63))>>, <<OneBit(63)>>,
              <<OneBit(62), OneBit(62)>>),
      GroupOf(Words(<<5, 6>>), Words(<<1, 1>>), Words(<<2, 2>>), <<OneBit(63)>>),
      GroupOf(Words(<<1, 2, 3>>), Words(<<10, 8>>), Words(<<-5, -4, 0>>), Words(<<1>>)),
      GroupOf(Words(<<4>>), Words(<<1, 1>>), Words(<<2, 2>>), <<>>) }

BBoxChoices ==
    { [kind |-> "full", v |-> Words(<<-5, 7, 9, -2>>)],
      [kind |-> "full", v |-> <<Not64(LowBits(62)), LowBits(62), Zero64, Words(<<-1>>)[1]>>],
      [kind |-> "full", v |-> <<OneBit(62), I64(1), I64(1), I64(1)>>],
      [kind |-> "full", v |-> <<I64(1), I64(1), I64(1), OneBit(63)>>],
      [kind |-> "partial", v |-> Words(<<3, 8>>)],
      [kind |-> "empty", v |-> Words(<<0, 0>>)],
      [kind |-> "absent", v |-> Words(<<0, 0>>)] }

InitDecode ==
    /\ mode = "decode"
    /\ ReadIdle
    /\ heap = <<>>
    /\ msg = NULL
    /\ junk = 1
    /\ last = NoOp
    /\ nops = 0
    /\ \E h \in BBoxChoices :
       \E gs \in UNION {[1 .. k -> GroupChoices] : k \in 1 .. MaxGroups} :
          pre = [header |-> h, groups |-> gs]
    /\ in = NoFile
    /\ map = NoMap
    /\ status = "idle"
    /\ blob = NoBlob

\* The body of the group loop of parse_PrimitiveBlock on the bytes of one
\* group field: a group that does not parse is passed over.
parse_group_wide(bytes, mp) ==
    Bind([g \in {PB_read_embedded_message_wide(bytes, Len(bytes))} |->
    IF g.rc < 0 THEN [rc |-> 0, map |-> mp, ub |-> FALSE]
    ELSE Bind([n \in {parse_nodes_in_group_wide(g.fields, mp)} |->
         Bind([w \in {parse_ways_in_group_wide(g.fields, n.map)} |->
         [rc |-> n.rc, map |-> w.map, ub |-> n.ub \/ w.ub]])])])

\* "Processing OSMHeader": the payload of the blob is parsed, which ends the
\* read when it fails, and handed to parse_HeaderBlock, whose failure is a
\* warning only.
DecodeHeader ==
    /\ mode = "decode"
    /\ status = "idle"
    /\ \E u \in {PB_read_embedded_message_wide(HeaderBytes(pre.header),
                                               Len(HeaderBytes(pre.header)))} :
       \E r \in {IF u.rc < 0 THEN [rc |-> -1, map |-> map]
                 ELSE parse_HeaderBlock_wide(u.fields, map)} :
          /\ map' = r.map
          /\ status' = IF u.rc < 0 THEN "returned_null" ELSE "running"
          /\ last' = [op |-> "header", rc |-> r.rc, ub |-> FALSE,
                      nodes0 |-> Len(map.nodes), ways0 |-> Len(map.ways)]
    /\ UNCHANGED <<mode, cdata, clen, cpos, crc, heap, msg, junk, pre, nops, in, blob>>

\* One pass of the group loop of parse_PrimitiveBlock.
DecodeGroup ==
    /\ mode = "decode"
    /\ status = "running"
    /\ nops < Len(pre.groups)
    /\ \E r \in {parse_group_wide(GroupBytes(pre.groups[nops + 1]), map)} :
       /\ map' = r.map
       /\ last' = [op |-> "group", rc |-> r.rc, ub |-> r.ub,
                   nodes0 |-> Len(map.nodes), ways0 |-> Len(map.ways)]
    /\ nops' = nops + 1
    /\ UNCHANGED <<mode, cdata, clen, cpos, crc, heap, msg, junk, pre, in, status, blob>>

NextDecode == DecodeHeader \/ DecodeGroup

SpecDecode == InitDecode /\ [][NextDecode]_vars

-----------------------------------------------------------------------------
(* Claims about the domain decoders.                                         *)

\* Every value of the sequence xs is written as a varint below 2^63.
Below63Bits(xs) ==
    \A i \in 1 .. Len(xs) : zigzag_encode(Deltas(xs, Zero64)[i])[WordBits] = 0

\* The nodes and the ways the last DecodeGroup appended.
NewNodes == SubSeq(map.nodes, last.nodes0 + 1, Len(map.nodes))
NewWays == SubSeq(map.ways, last.ways0 + 1, Len(map.ways))

\* The group the last DecodeGroup decoded.
LastGroup == pre.groups[nops]

\* C18: the refs stored for a Way are the running sums of the zigzag-decoded
\* values of its packed field #8, so that a sequence x0..xn written as
\* zigzag(x0), zigzag(x1 - x0), ... is stored as exactly x0..xn, and num_refs
\* is the number of values written.
C18_WayRefsAreTheEncodedSequence ==
    last.op = "group" =>
       /\ Len(NewWays) = 1
       /\ NewWays[1].refs = LastGroup.refs
       /\ NewWays[1].num_refs = Len(LastGroup.refs)

\* The same for the sequences whose every written value is below 2^63, and
\* the count of the refs for every sequence: what the code does deliver.
WayRefsBelow63Bits ==
    last.op = "group" =>
       /\ Len(NewWays) = 1
       /\ NewWays[1].num_refs = Len(LastGroup.refs)
       /\ Len(NewWays[1].refs) = Len(LastGroup.refs)
       /\ Below63Bits(LastGroup.refs) => NewWays[1].refs = LastGroup.refs

\* No += of the decoders leaves the range of int64_t on these inputs.
NoSignedOverflow == last.op = "group" => ~last.ub

\* The bounding box that pre.header describes.
HeaderBBox ==
    [min_lon |-> pre.header.v[1], max_lon |-> pre.header.v[2],
     max_lat |-> pre.header.v[3], min_lat |-> pre.header.v[4]]

\* C19: after a HeaderBlock whose HeaderBBox holds all four VARINT fields the
\* bounding box has min_lon, max_lon, max_lat, min_lat equal to the
\* zigzag-decoded values of fields 1, 2, 3, 4; a HeaderBlock whose HeaderBBox
\* is absent or lacks any of the four sets no bounding box and the read goes on.
C19_BBoxIsTheZigzagOfItsFields ==
    last.op = "header" =>
       /\ pre.header.kind = "full" => map.bbox = <<HeaderBBox>>
       /\ pre.header.kind # "full" => map.bbox = <<>> /\ status = "running"

\* The same when each of the four fields is below 2^63, and the absent and
\* partial cases as stated: what the code does deliver.
BBoxBelow63Bits ==
    last.op = "header" =>
       /\ pre.header.kind = "full" /\ (\A k \in 1 .. 4 :
                                          zigzag_encode(pre.header.v[k])[WordBits] = 0)
             => map.bbox = <<HeaderBBox>>
       /\ pre.header.kind = "full" => Len(map.bbox) = 1 /\ status = "running"
       /\ pre.header.kind # "full" => map.bbox = <<>> /\ status = "running"
       /\ last.rc = (IF pre.header.kind = "empty" THEN -1 ELSE 0)

\* In OSM_read_Map a blob that reached parse_HeaderBlock never ends the read,
\* whatever parse_HeaderBlock returned.
HeaderBlockNeverEndsTheRead ==
    blob.dispatch = "header" => status # "returned_null"

\* The packed fields #1, #8 and #9 written for g hold the same number of values.
EqualLengths(g) == Len(g.lats) = Len(g.ids) /\ Len(g.lons) = Len(g.ids)

\* The nodes that the sequences of the group g describe.
NodesOf(g) ==
    [k \in 1 .. Len(g.ids) |-> [id |-> g.ids[k], lat |-> g.lats[k], lon |-> g.lons[k]]]

\* C20: a DenseNodes whose packed fields #1, #8 and #9 each hold N values
\* appends exactly N nodes, the k-th with the running sums of the
\* zigzag-decoded deltas 0..k of the ids, the lats and the lons, each sum
\* starting at zero for every DenseNodes.
C20_DenseNodesAreTheEncodedSequences ==
    last.op = "group" /\ EqualLengths(LastGroup) =>
       /\ Len(NewNodes) = Len(LastGroup.ids)
       /\ NewNodes = NodesOf(LastGroup)

\* The same when every written value is below 2^63, and the count of the
\* nodes for every group: what the code does deliver.
DenseNodesBelow63Bits ==
    last.op = "group" /\ EqualLengths(LastGroup) =>
       /\ Len(NewNodes) = Len(LastGroup.ids)
       /\ last.rc = Len(LastGroup.ids)
       /\ Below63Bits(LastGroup.ids) /\ Below63Bits(LastGroup.lats)
             /\ Below63Bits(LastGroup.lons)
          => NewNodes = NodesOf(LastGroup)

\* w is the word of an integer -2^19 <= n < 2^19.
IsSmall(w) == \A i \in 20 .. WordBits : w[i] = w[WordBits]

SmallWords(ws) == \A i \in 1 .. Len(ws) : IsSmall(ws[i])

Ints(ws) == [i \in 1 .. Len(ws) |-> SignedInt(ws[i])]

\* On small numbers the decoders on the heap, with value.i64 an integer, store
\* the numbers that the decoders on the lists store.
DecodersAgree ==
    /\ last.op = "group" /\ SmallWords(LastGroup.ids) /\ SmallWords(LastGroup.lats)
          /\ SmallWords(LastGroup.lons) /\ SmallWords(LastGroup.refs)
       => \E g \in {PB_read_embedded_message(GroupBytes(LastGroup),
                                             Len(GroupBytes(LastGroup)), junk)} :
          \E n \in {parse_nodes_in_group(g.heap, g.msg, NoMap, junk)} :
          \E w \in {parse_ways_in_group(g.heap, g.msg, n.map, <<>>, 0, junk)} :
             /\ n.rc = last.rc
             /\ w.map.nodes = [k \in 1 .. Len(NewNodes) |->
                                  [id |-> SignedInt(NewNodes[k].id),
                                   lat |-> SignedInt(NewNodes[k].lat),
                                   lon |-> SignedInt(NewNodes[k].lon)]]
             /\ Len(w.map.ways) = 1
             /\ w.map.ways[1].id = SignedInt(NewWays[1].id)
             /\ w.map.ways[1].refs = Ints(NewWays[1].refs)
    /\ last.op = "header" /\ SmallWords(pre.header.v)
       => \E u \in {PB_read_embedded_message(HeaderBytes(pre.header),
                                             Len(HeaderBytes(pre.header)), junk)} :
          \E r \in {parse_HeaderBlock(u.heap, u.msg, NoMap, junk)} :
             /\ r.rc = last.rc
             /\ Len(r.map.bbox) = Len(map.bbox)
             /\ map.bbox # <<>> =>
                   r.map.bbox[1] = [min_lon |-> SignedInt(map.bbox[1].min_lon),
                                    max_lon |-> SignedInt(map.bbox[1].max_lon),
                                    max_lat |-> SignedInt(map.bbox[1].max_lat),
                                    min_lat |-> SignedInt(map.bbox[1].min_lat)]

-----------------------------------------------------------------------------
(* Accessors of the map.  A pointer to a node or a way is <<>> for NULL and  *)
(* <<x>> otherwise.                                                          *)

OSM_Map_get_num_nodes(mp) == Len(mp.nodes)

OSM_Map_get_Node(mp, index) ==
    IF mp.nodes = <<>> \/ index < 0 \/ index >= Len(mp.nodes) THEN <<>>
    ELSE <<mp.nodes[index + 1]>>

OSM_Node_get_lat(np) == IF np = <<>> THEN Zero64 ELSE np[1].lat

OSM_Node_get_lon(np) == IF np = <<>> THEN Zero64 ELSE np[1].lon

\* C21: the lat and lon stored in every Node and returned by
\* OSM_Node_get_lat / OSM_Node_get_lon are in nanodegrees: the decoded running
\* sum of granularity units multiplied by 100.
C21_NodeLatLonInNanodegrees ==
    last.op = "group" /\ EqualLengths(LastGroup)
       /\ SmallWords(LastGroup.lats) /\ SmallWords(LastGroup.lons) =>
       \A k \in 1 .. Len(LastGroup.ids) :
          \E np \in {OSM_Map_get_Node(map, last.nodes0 + k - 1)} :
             /\ np # <<>>
             /\ SignedInt(OSM_Node_get_lat(np)) = 100 * SignedInt(LastGroup.lats[k])
             /\ SignedInt(OSM_Node_get_lon(np)) = 100 * SignedInt(LastGroup.lons[k])

\* What the accessors do return: the running sums themselves, in granularity
\* units.
NodeLatLonInGranularityUnits ==
    last.op = "group" /\ EqualLengths(LastGroup)
       /\ Below63Bits(LastGroup.lats) /\ Below63Bits(LastGroup.lons) =>
       \A k \in 1 .. Len(LastGroup.ids) :
          \E np \in {OSM_Map_get_Node(map, last.nodes0 + k - 1)} :
             /\ np # <<>>
             /\ OSM_Node_get_lat(np) = LastGroup.lats[k]
             /\ OSM_Node_get_lon(np) = LastGroup.lons[k]

\* The length of the shortest of the three sequences of g.
CommonPrefix(g) == Min(Len(g.ids), Min(Len(g.lats), Len(g.lons)))

\* C22: when the id, lat and lon sequences of a DenseNodes differ in length,
\* decoding it fails and appends no Node.
C22_DenseLengthMismatchFails ==
    last.op = "group" /\ ~EqualLengths(LastGroup) =>
       /\ NewNodes = <<>>
       /\ last.rc < 0

\* What the code does instead: it succeeds with one node for each index that
\* all three sequences have.
DenseLengthMismatchGivesCommonPrefix ==
    last.op = "group" /\ ~EqualLengths(LastGroup) =>
       /\ Len(NewNodes) = CommonPrefix(LastGroup)
       /\ last.rc = CommonPrefix(LastGroup)
       /\ \A k \in 1 .. CommonPrefix(LastGroup) :
             NewNodes[k] = [id |-> LastGroup.ids[k], lat |-> LastGroup.lats[k],
                            lon |-> LastGroup.lons[k]]

-----------------------------------------------------------------------------
(* SpecTags: parse_PrimitiveBlock on a block of one group with one way.  pre *)
(* holds what the block was written from: the StringTable (table "missing",  *)
(* "empty" for a StringTable of length 0, or "full" with its strings) and    *)
(* the string indexes of the keys and of the values of the way.              *)

MaxTags == 2        \* key / value pairs of the generated way

TagIndexes == {0, 1, 2, 5}

TagStrings == << <<>>, <<107>>, <<118>> >>      \* "", "k", "v"

TableChoices ==
    { [table |-> "missing", strings |-> <<>>],
      [table |-> "empty", strings |-> <<>>],
      [table |-> "full", strings |-> TagStrings] }

StringTableBytes(ss) == EncMessage([i \in 1 .. Len(ss) |-> LenField(1, ss[i])])

\* The way (id 9, ref 1); a packed field is written only for a sequence that
\* is not empty.
TaggedWayBytes(keys, vals) ==
    EncMessage(<<VarintField(1, 9)>>
               \o (IF keys = <<>> THEN <<>> ELSE <<LenField(2, keys)>>)
               \o (IF vals = <<>> THEN <<>> ELSE <<LenField(3, vals)>>)
               \o <<LenField(8, <<2>>)>>)

TaggedBlockBytes(d) ==
    EncMessage((IF d.table = "missing" THEN <<>>
                ELSE <<LenField(1, StringTableBytes(d.strings))>>)
               \o <<LenField(2, EncMessage(<<LenField(3, TaggedWayBytes(d.keys, d.vals))>>))>>)

InitTags ==
    /\ mode = "tags"
    /\ ReadIdle
    /\ heap = <<>>
    /\ msg = NULL
    /\ junk \in {-1, 1}
    /\ last = NoOp
    /\ nops = 0
    /\ \E t \in TableChoices : \E k \in 0 .. MaxTags :
       \E keys \in [1 .. k -> TagIndexes] : \E vals \in [1 .. k -> TagIndexes] :
          pre = [table |-> t.table, strings |-> t.strings, keys |-> keys, vals |-> vals]
    /\ in = NoFile
    /\ map = NoMap
    /\ status = "idle"
    /\ blob = NoBlob

\* "Processing OSMData": the payload of the blob is parsed, which ends the
\* read when it fails, and handed to parse_PrimitiveBlock.
DecodeBlock ==
    /\ mode = "tags"
    /\ status = "idle"
    /\ \E u \in {PB_read_embedded_message(TaggedBlockBytes(pre),
                                          Len(TaggedBlockBytes(pre)), junk)} :
       \E r \in {IF u.rc < 0 \/ u.msg = NULL THEN [rc |-> -1, map |-> map, err |-> TRUE]
                 ELSE parse_PrimitiveBlock(u.heap, u.msg, map, junk)} :
          /\ map' = r.map
          /\ status' = IF u.rc < 0 \/ u.msg = NULL THEN "returned_null" ELSE "running"
          /\ last' = [op |-> "block", rc |-> r.rc, err |-> r.err]
    /\ UNCHANGED <<mode, cdata, clen, cpos, crc, heap, msg, junk, pre, nops, in, blob>>

NextTags == DecodeBlock

SpecTags == InitTags /\ [][NextTags]_vars

OSM_Map_get_Way(mp, index) ==
    IF mp.ways = <<>> \/ index < 0 \/ index >= Len(mp.ways) THEN <<>>
    ELSE <<mp.ways[index + 1]>>

OSM_Way_get_num_keys(wp) == IF wp = <<>> THEN 0 ELSE Len(wp[1].keys)

OSM_Way_get_key(wp, index) ==
    IF wp = <<>> \/ wp[1].keys = <<>> \/ index < 0 \/ index >= Len(wp[1].keys) THEN <<>>
    ELSE wp[1].keys[index + 1]

OSM_Way_get_value(wp, index) ==
    IF wp = <<>> \/ wp[1].vals = <<>> \/ index < 0 \/ index >= Len(wp[1].keys) THEN <<>>
    ELSE wp[1].vals[index + 1]

\* The string a tag index stands for, as a char*: the StringTable string, or
\* the empty string when the index is out of range.
TagStringOf(idx) ==
    IF idx < Len(pre.strings) THEN <<pre.strings[idx + 1]>> ELSE << <<>> >>

\* C23: key i and value i of every Way are the StringTable strings at keys[i]
\* and vals[i]; for an index out of range (every index when the StringTable
\* is empty or missing) the key or value is the empty string, never NULL, and
\* the decode does not fail.
C23_WayTagsFromStringTable ==
    last.op = "block" =>
       /\ last.rc = 0
       /\ \E wp \in {OSM_Map_get_Way(map, 0)} :
          /\ wp # <<>>
          /\ OSM_Way_get_num_keys(wp) = Len(pre.keys)
          /\ \A i \in 0 .. Len(pre.keys) - 1 :
                /\ OSM_Way_get_key(wp, i) = TagStringOf(pre.keys[i + 1])
                /\ OSM_Way_get_value(wp, i) = TagStringOf(pre.vals[i + 1])

\* What the code does deliver: the strings for the indexes in range, NULL for
\* the others, and a way in every case.
WayTagsInRangeElseNull ==
    last.op = "block" =>
       /\ last.rc = 0
       /\ \E wp \in {OSM_Map_get_Way(map, 0)} :
          /\ wp # <<>>
          /\ OSM_Way_get_num_keys(wp) = Len(pre.keys)
          /\ \A i \in 0 .. Len(pre.keys) - 1 :
                /\ OSM_Way_get_key(wp, i) =
                      (IF pre.keys[i + 1] < Len(pre.strings)
                       THEN <<pre.strings[pre.keys[i + 1] + 1]>> ELSE <<>>)
                /\ OSM_Way_get_value(wp, i) =
                      (IF pre.vals[i + 1] < Len(pre.strings)
                       THEN <<pre.strings[pre.vals[i + 1] + 1]>> ELSE <<>>)

-----------------------------------------------------------------------------
(* The order of the entities of the Map.                                     *)

NodeIds(nodes) == [i \in DOMAIN nodes |-> nodes[i].id]
WayIds(ways) == [i \in DOMAIN ways |-> ways[i].id]

\* The node ids and the way ids of a block in the order of the stream: group
\* after group, and within a group in the order of the DenseNodes run and of
\* the way fields.
RECURSIVE StreamNodeIds(_)
StreamNodeIds(groups) ==
    IF groups = <<>> THEN <<>> ELSE Head(groups).ids \o StreamNodeIds(Tail(groups))

RECURSIVE StreamWayIds(_)
StreamWayIds(groups) ==
    IF groups = <<>> THEN <<>> ELSE Head(groups).ways \o StreamWayIds(Tail(groups))

\* The OSMData blobs of the stream whose entities are known.
BlocksInOrder ==
    { [d |-> BlobOf(OSMDataStr, <<LenField(1, DataA)>>, "ok"), groups |-> GroupsA],
      [d |-> BlobOf(OSMDataStr, <<LenField(3, Deflate(DataA))>>, "ok"), groups |-> GroupsA],
      [d |-> BlobOf(OSMDataStr, <<LenField(1, DataB)>>, "ok"), groups |-> GroupsB] }

\* C24: the node and way sequences of the Map list the entities in the order
\* of the input stream.  Every iteration of OSM_read_Map leaves the nodes and
\* ways already in the Map where they are, as a prefix of the new sequences,
\* and the iteration that decodes the blob at position nops + 1 of the stream
\* appends that blob's nodes and ways in stream order: group after group, and
\* within each DenseNodes run in the order of the run.
C24_EntitiesInStreamOrder ==
    [][status = "running" =>
          /\ IsPrefix(map.nodes, map'.nodes)
          /\ IsPrefix(map.ways, map'.ways)
          /\ \A b \in BlocksInOrder :
                (nops < Len(pre) /\ pre[nops + 1] = b.d) =>
                   /\ NodeIds(map'.nodes) = NodeIds(map.nodes) \o StreamNodeIds(b.groups)
                   /\ WayIds(map'.ways) = WayIds(map.ways) \o StreamWayIds(b.groups)]_vars

\* Two blobs of different content have been decoded, the one of two groups
\* last: the Map lists the entities of the first blob, then those of the first
\* group of the second, then those of its second group.
C24_Witness ==
    /\ status \in {"running", "returned_map"}
    /\ Len(pre) = 2
    /\ nops = 2
    /\ NodeIds(map.nodes) = <<1, 2, 5, 6, 8, 3>>
    /\ WayIds(map.ways) = <<9, 7, 4, 2>>

-----------------------------------------------------------------------------
(* The temporary objects of the framer.                                      *)

FramerObjects ==
    {"header_buf", "header_msg", "type_str", "blob_buf", "blob_msg", "uncompressed_msg"}

\* How many objects named obj are allocated after the events ev.
RECURSIVE Live(_, _)
Live(ev, obj) ==
    IF ev = <<>> THEN 0
    ELSE Live(SubSeq(ev, 1, Len(ev) - 1), obj) +
         (IF ev[Len(ev)].obj # obj THEN 0
          ELSE IF ev[Len(ev)].op = "malloc" THEN 1 ELSE -1)

\* C25: during an iteration of OSM_read_Map at most one BlobHeader buffer,
\* BlobHeader message, type string, Blob buffer, Blob message and inner
\* message is allocated at any time, none is released twice or in part, and
\* all of them have been released when the iteration ends: at the continue of
\* the datasize-0 path, at the end of the loop body, and at every return.
C25_FramerReleasesItsTemporaries ==
    /\ \A i \in DOMAIN blob.ev :
          /\ blob.ev[i].op \in {"malloc", "free"}
          /\ blob.ev[i].obj \in FramerObjects
    /\ \A obj \in FramerObjects :
          /\ \A n \in 0 .. Len(blob.ev) : Live(SubSeq(blob.ev, 1, n), obj) \in {0, 1}
          /\ Live(blob.ev, obj) = 0

Allocated(obj) == \E i \in DOMAIN blob.ev : blob.ev[i] = [op |-> "malloc", obj |-> obj]

\* An iteration has allocated all six objects and gone on to the next blob.
C25_Witness ==
    /\ status = "running"
    /\ \A obj \in FramerObjects : Allocated(obj)

\* The other paths of the claim are taken too: the datasize-0 path, and a
\* return of NULL with the Blob message allocated.
EmptyBlobPathTaken ==
    status = "running" /\ blob.datasize = 0 /\ Allocated("type_str")
ErrorPathTaken ==
    status = "returned_null" /\ Allocated("blob_msg")

-----------------------------------------------------------------------------
(* SpecCli: main on a command line, a file system and a standard input.      *)

\* OSM_read_Map(in): the loop run to its break or return.
RECURSIVE OSM_read_Map_run(_, _, _)
OSM_read_Map_run(f, mp, sn) ==
    Bind([r \in {OSM_read_Map_loop(f, mp, sn)} |->
    IF r.status = "running" THEN OSM_read_Map_run(r.in, r.map, sn) ELSE r])

OSM_read_Map(f, sn) == OSM_read_Map_run(f, NoMap, sn)

\* argv[i][0] == '-'
StartsWithDash(a) == a \in {"-h", "-f", "-s", "-b", "-n", "-w", "-x", "-q", "-5"}

\* atoll: the decimal value of the digits the string starts with, 0 when it
\* starts with none.
atoll(a) ==
    CASE a = "1" -> 1
      [] a = "2" -> 2
      [] a = "9" -> 9
      [] a = "404" -> 404
      [] a = "9x" -> 9
      [] a = "-5" -> -5
      [] OTHER -> 0

\* The characters of an argument that is used as a key.
Chars(a) ==
    CASE a = "k" -> <<107>>
      [] a = "v" -> <<118>>
      [] a = "zz" -> <<122, 122>>
      [] OTHER -> <<63>>

MaxWayKeys == 10        \* char* way_keys[10]
EXIT_SUCCESS == 0
EXIT_FAILURE == 1

\* The locals of process_args; osm_input_file is the global.
ArgsStart ==
    [rc |-> 0, f_specified |-> 0, osm_input_file |-> <<>>, summary_requested |-> 0,
     bounding_box_requested |-> 0, node_id |-> 0, way_id |-> 0, way_keys |-> <<>>]

\* while (i < argc && argv[i][0] != '-'): the keys of -w.  argv[i] of the
\* code is argv[i + 1] here.
RECURSIVE WayKeysLoop(_, _, _)
WayKeysLoop(argv, i, keys) ==
    IF i < Len(argv) /\ ~StartsWithDash(argv[i + 1])
    THEN IF Len(keys) < MaxWayKeys
         THEN WayKeysLoop(argv, i + 1, Append(keys, argv[i + 1]))
         ELSE [rc |-> -1, i |-> i, keys |-> keys]
    ELSE [rc |-> 0, i |-> i, keys |-> keys]

\* Phase 1 of process_args: the while (i < argc) loop.
RECURSIVE ArgsLoop(_, _, _)
ArgsLoop(argv, i, st) ==
    IF i >= Len(argv) THEN st
    ELSE Bind([a \in {argv[i + 1]} |->
         Bind([missing \in {i + 1 >= Len(argv) \/ StartsWithDash(argv[i + 2])} |->
    IF a = "-f"
    THEN IF missing THEN [st EXCEPT !.rc = -1]
         ELSE IF st.f_specified = 1 THEN [st EXCEPT !.rc = -1]
         ELSE ArgsLoop(argv, i + 2, [st EXCEPT !.osm_input_file = <<argv[i + 2]>>,
                                               !.f_specified = 1])
    ELSE IF a = "-s" THEN ArgsLoop(argv, i + 1, [st EXCEPT !.summary_requested = 1])
    ELSE IF a = "-b" THEN ArgsLoop(argv, i + 1, [st EXCEPT !.bounding_box_requested = 1])
    ELSE IF a = "-n"
    THEN IF missing THEN [st EXCEPT !.rc = -1]
         ELSE ArgsLoop(argv, i + 2, [st EXCEPT !.node_id = atoll(argv[i + 2])])
    ELSE IF a = "-w"
    THEN IF missing THEN [st EXCEPT !.rc = -1]
         ELSE Bind([k \in {WayKeysLoop(argv, i + 2, <<>>)} |->
              IF k.rc < 0 THEN [st EXCEPT !.rc = -1]
              ELSE ArgsLoop(argv, k.i, [st EXCEPT !.way_id = atoll(argv[i + 2]),
                                                  !.way_keys = k.keys])])
    ELSE [st EXCEPT !.rc = -1]])])

OSM_Map_get_num_ways(mp) == Len(mp.ways)
OSM_Map_get_BBox(mp) == mp.bbox
OSM_Node_get_id(np) == IF np = <<>> THEN 0 ELSE np[1].id
OSM_Way_get_id(wp) == IF wp = <<>> THEN 0 ELSE wp[1].id
OSM_Way_get_num_refs(wp) == IF wp = <<>> THEN 0 ELSE Len(wp[1].refs)
OSM_Way_get_ref(wp, index) ==
    IF wp = <<>> \/ index < 0 \/ index >= Len(wp[1].refs) THEN 0 ELSE wp[1].refs[index + 1]

\* for (j = 0; j < num_nodes; j++) ... break: the first node with the id.
RECURSIVE FindNode(_, _, _)
FindNode(mp, node_id, j) ==
    IF j >= OSM_Map_get_num_nodes(mp) THEN <<>>
    ELSE IF OSM_Node_get_id(OSM_Map_get_Node(mp, j)) = node_id
    THEN OSM_Map_get_Node(mp, j)
    ELSE FindNode(mp, node_id, j + 1)

RECURSIVE FindWay(_, _, _)
FindWay(mp, way_id, j) ==
    IF j >= OSM_Map_get_num_ways(mp) THEN <<>>
    ELSE IF OSM_Way_get_id(OSM_Map_get_Way(mp, j)) = way_id
    THEN OSM_Map_get_Way(mp, j)
    ELSE FindWay(mp, way_id, j + 1)

\* The values printed for one requested key: those of the tags of the way
\* whose key is the requested one.  strcmp on a NULL key is undefined.
RECURSIVE KeyValues(_, _, _)
KeyValues(way, requested_key, j) ==
    IF j >= OSM_Way_get_num_keys(way) THEN [vals |-> <<>>, ub |-> FALSE]
    ELSE IF OSM_Way_get_key(way, j) = <<>> THEN [vals |-> <<>>, ub |-> TRUE]
    ELSE Bind([r \in {KeyValues(way, requested_key, j + 1)} |->
         IF strcmp(OSM_Way_get_key(way, j)[1], Chars(requested_key)) = 0
         THEN [r EXCEPT !.vals = <<OSM_Way_get_value(way, j)>> \o @]
         ELSE r])

RECURSIVE AllKeyValues(_, _)
AllKeyValues(way, keys) ==
    IF keys = <<>> THEN [vals |-> <<>>, ub |-> FALSE]
    ELSE Bind([a \in {KeyValues(way, Head(keys), 0)} |->
         Bind([r \in {AllKeyValues(way, Tail(keys))} |->
         [vals |-> a.vals \o r.vals, ub |-> a.ub \/ r.ub]])])

\* What each query writes to standard output: one line, or none.  A line
\* holds the values handed to printf.
SummaryLines(mp, st) ==
    IF st.summary_requested = 1
    THEN <<[query |-> "-s", line |-> "nodes: %d, ways: %d",
            args |-> <<OSM_Map_get_num_nodes(mp), OSM_Map_get_num_ways(mp)>>]>>
    ELSE <<>>

BBoxLines(mp, st) ==
    IF st.bounding_box_requested = 1 /\ OSM_Map_get_BBox(mp) # <<>>
    THEN <<[query |-> "-b", line |-> "min_lon, max_lon, max_lat, min_lat",
            args |-> OSM_Map_get_BBox(mp)]>>
    ELSE <<>>

NodeLines(mp, st) ==
    IF st.node_id = 0 THEN <<>>
    ELSE Bind([node \in {FindNode(mp, st.node_id, 0)} |->
         IF node # <<>>
         THEN <<[query |-> "-n", line |-> "%ld\t%.7f %.7f",
                 args |-> <<OSM_Node_get_id(node), node[1].lat, node[1].lon>>]>>
         ELSE <<[query |-> "-n", line |-> "Node %ld not found.", args |-> <<st.node_id>>]>>])

WayLines(mp, st) ==
    IF st.way_id = 0 THEN <<>>
    ELSE Bind([way \in {FindWay(mp, st.way_id, 0)} |->
         IF way = <<>> THEN <<>>
         ELSE IF Len(st.way_keys) > 0
         THEN <<[query |-> "-w", line |-> "%ld\t values",
                 args |-> <<OSM_Way_get_id(way)>> \o AllKeyValues(way, st.way_keys).vals]>>
         ELSE <<[query |-> "-w", line |-> "%ld\t refs",
                 args |-> <<OSM_Way_get_id(way)>> \o
                          [j \in 1 .. OSM_Way_get_num_refs(way) |->
                              OSM_Way_get_ref(way, j - 1)]]>>])

\* process_args(argc, argv, mp); mp is <<>> for NULL.  usage is the exit
\* status USAGE is called with inside process_args, or <<>>.
process_args(argv, mp) ==
    IF Len(argv) < 2
    THEN [rc |-> -1, usage |-> <<EXIT_FAILURE>>, help_requested |-> 0, st |-> ArgsStart,
          out |-> <<>>, ub |-> FALSE]
    ELSE IF argv[2] = "-h"
    THEN [rc |-> 0, usage |-> <<EXIT_SUCCESS>>, help_requested |-> 1, st |-> ArgsStart,
          out |-> <<>>, ub |-> FALSE]
    ELSE Bind([st \in {ArgsLoop(argv, 1, ArgsStart)} |->
         IF st.rc < 0 \/ mp = <<>>
         THEN [rc |-> st.rc, usage |-> <<>>, help_requested |-> 0, st |-> st,
               out |-> <<>>, ub |-> FALSE]
         ELSE [rc |-> 0, usage |-> <<>>, help_requested |-> 0, st |-> st,
               out |-> SummaryLines(mp[1], st) \o BBoxLines(mp[1], st) \o
                       NodeLines(mp[1], st) \o WayLines(mp[1], st),
               ub |-> st.way_id # 0 /\ FindWay(mp[1], st.way_id, 0) # <<>>
                      /\ AllKeyValues(FindWay(mp[1], st.way_id, 0), st.way_keys).ub]])

\* USAGE(program_name, retcode) prints the usage text on the error stream and
\* ends the process with retcode.
USAGE(retcode, out) == [op |-> "exit", code |-> retcode, stdout |-> out]

\* return retcode from main.
Return(retcode, out) == [op |-> "exit", code |-> retcode, stdout |-> out]

\* What a process can do past undefined behaviour: go on, or be killed by
\* SIGSEGV or SIGABRT.
UndefinedExits == {EXIT_SUCCESS, EXIT_FAILURE, 134, 139}

\* The files of the file system and what standard input holds.
FileGood ==
    FileOf(<<BlobOf(OSMHeaderStr, <<LenField(1, HeaderA)>>, "ok"),
             BlobOf(OSMDataStr, <<LenField(1, DataA)>>, "ok")>>)
FileTruncated == <<0, 0, 0, 5>>

fopen(name) ==
    CASE name = "a.pbf" -> <<FileGood>>
      [] name = "b.pbf" -> <<FileGood>>
      [] name = "empty.pbf" -> << <<>> >>
      [] name = "bad.pbf" -> <<FileTruncated>>
      [] OTHER -> <<>>

StdinChoices == {<<>>, FileGood, FileTruncated}

\* A command line (argv[0] left out), the case of the usage rules it is,
\* and the query flags whose id no entity of a.pbf has.
Cmd(args, class, absent) == [argv |-> <<"pbf">> \o args, class |-> class, absent |-> absent]

CmdChoices ==
    { Cmd(<<>>, "no_arguments", {}),
      Cmd(<<"-h">>, "help", {}),
      Cmd(<<"-x">>, "unknown_flag", {}),
      Cmd(<<"-f", "a.pbf", "-q">>, "unknown_flag", {}),
      Cmd(<<"-s", "-h">>, "unknown_flag", {}),
      Cmd(<<"-f", "a.pbf", "-f", "b.pbf">>, "second_f", {}),
      Cmd(<<"-f", "a.pbf", "-s", "-f", "a.pbf">>, "second_f", {}),
      Cmd(<<"-f">>, "missing_argument", {}),
      Cmd(<<"-f", "-s">>, "missing_argument", {}),
      Cmd(<<"-f", "a.pbf", "-n">>, "missing_argument", {}),
      Cmd(<<"-f", "a.pbf", "-w">>, "missing_argument", {}),
      Cmd(<<"-f", "a.pbf", "-n", "-5">>, "missing_argument", {}),
      Cmd(<<"-s", "extra">>, "extra_positional", {}),
      Cmd(<<"-b", "extra">>, "extra_positional", {}),
      Cmd(<<"-f", "a.pbf", "-s", "extra">>, "extra_positional", {}),
      Cmd(<<"-s">>, "query_without_f", {}),
      Cmd(<<"-b">>, "query_without_f", {}),
      Cmd(<<"-n", "1">>, "query_without_f", {}),
      Cmd(<<"-w", "9", "k">>, "query_without_f", {}),
      Cmd(<<"-f", "a.pbf">>, "valid", {}),
      Cmd(<<"-f", "a.pbf", "-s">>, "valid", {}),
      Cmd(<<"-f", "a.pbf", "-b">>, "valid", {}),
      Cmd(<<"-f", "a.pbf", "-n", "1">>, "valid", {}),
      Cmd(<<"-f", "a.pbf", "-n", "404">>, "valid", {"-n"}),
      Cmd(<<"-f", "a.pbf", "-w", "9">>, "valid", {}),
      Cmd(<<"-f", "a.pbf", "-w", "404">>, "valid", {"-w"}),
      Cmd(<<"-f", "a.pbf", "-w", "404", "k">>, "valid", {"-w"}),
      Cmd(<<"-f", "a.pbf", "-w", "9", "k">>, "valid", {}),
      Cmd(<<"-f", "a.pbf", "-w", "9x", "zz", "v">>, "valid", {}),
      Cmd(<<"-f", "a.pbf", "-b", "-s", "-n", "2", "-w", "9">>, "valid", {}),
      Cmd(<<"-f", "a.pbf", "-s", "-n", "404", "-w", "2">>, "valid", {"-n", "-w"}),
      Cmd(<<"-f", "empty.pbf", "-s", "-b">>, "valid", {}),
      Cmd(<<"-f", "bad.pbf", "-s">>, "unreadable", {}),
      Cmd(<<"-f", "none.pbf", "-s">>, "unreadable", {}) }

InitCli ==
    /\ mode = "cli"
    /\ ReadIdle
    /\ heap = <<>>
    /\ msg = NULL
    /\ junk \in {-1, 1}
    /\ last = NoOp
    /\ nops = 0
    /\ \E c \in CmdChoices, s \in StdinChoices :
          pre = [argv |-> c.argv, class |-> c.class, absent |-> c.absent, stdin |-> s]
    /\ MapIdle

\* "First pass: Validate args", and the exit for -h.
MainValidate ==
    /\ mode = "cli"
    /\ status = "idle"
    /\ \E r \in {process_args(pre.argv, <<>>)} :
          IF r.usage # <<>>
          THEN status' = "exited" /\ last' = USAGE(r.usage[1], <<>>)
          ELSE IF r.rc < 0
          THEN status' = "exited" /\ last' = USAGE(EXIT_FAILURE, <<>>)
          ELSE IF r.help_requested = 1
          THEN status' = "exited" /\ last' = USAGE(EXIT_SUCCESS, <<>>)
          ELSE /\ status' = "validated"
               /\ last' = [op |-> "process_args", osm_input_file |-> r.st.osm_input_file]
    /\ UNCHANGED <<mode, cdata, clen, cpos, crc, heap, msg, junk, pre, nops, in, map, blob>>

\* "Open file if specified", "Read the map".
MainReadMap ==
    /\ mode = "cli"
    /\ status = "validated"
    /\ \E f \in {IF last.osm_input_file # <<>> THEN fopen(last.osm_input_file[1])
                 ELSE <<pre.stdin>>} :
          IF f = <<>>
          THEN /\ status' = "exited"
               /\ last' = Return(EXIT_FAILURE, <<>>)
               /\ UNCHANGED <<in, map>>
          ELSE \E m \in {OSM_read_Map([data |-> f[1], pos |-> 0, eof |-> FALSE], junk)} :
                  /\ in' = m.in
                  /\ IF m.status = "returned_null"
                     THEN /\ status' = "exited"
                          /\ last' = Return(EXIT_FAILURE, <<>>)
                          /\ map' = map
                     ELSE /\ status' = "loaded"
                          /\ last' = last
                          /\ map' = m.map
    /\ UNCHANGED <<mode, cdata, clen, cpos, crc, heap, msg, junk, pre, nops, blob>>

\* "Second pass: Perform queries".
MainQuery ==
    /\ mode = "cli"
    /\ status = "loaded"
    /\ \E r \in {process_args(pre.argv, <<map>>)} :
          /\ status' = "exited"
          /\ IF r.ub
             THEN \E code \in UndefinedExits : last' = Return(code, r.out)
             ELSE last' = Return(IF r.rc < 0 THEN EXIT_FAILURE ELSE EXIT_SUCCESS, r.out)
    /\ UNCHANGED <<mode, cdata, clen, cpos, crc, heap, msg, junk, pre, nops, in, map, blob>>

NextCli == MainValidate \/ MainReadMap \/ MainQuery

SpecCli == InitCli /\ [][NextCli]_vars

Exited == mode = "cli" /\ status = "exited"

\* C26: the program exits with status 1 when it is invoked with no arguments,
\* with an unknown flag, with a second -f, with a flag that misses its
\* argument, with an extra positional argument after -s or -b, or with a
\* query flag and no -f.
C26_InvalidCommandLineExitsOne ==
    (Exited /\ pre.class \in {"no_arguments", "unknown_flag", "second_f", "missing_argument",
                              "extra_positional", "query_without_f"})
        => last.code = 1

\* All the cases of C26 but the last: the exit status is 1 and nothing is
\* written to standard output.
InvalidArgumentsExitOne ==
    (Exited /\ pre.class \in {"no_arguments", "unknown_flag", "second_f", "missing_argument",
                              "extra_positional"})
        => last.code = 1 /\ last.stdout = <<>>

\* A query without -f is answered from standard input: the exit status is 1
\* only when no Map can be read from it.
QueryWithoutFileReadsStdin ==
    (Exited /\ pre.class = "query_without_f")
        => /\ pre.stdin \in {<<>>, FileGood} => last.code = 0
           /\ pre.stdin = FileTruncated => last.code = 1
           /\ in.data = pre.stdin

LinesOf(q) == {i \in DOMAIN last.stdout : last.stdout[i].query = q}

\* C27: a -n ID or -w ID whose id no Node or Way of the loaded Map has writes
\* nothing to standard output for that query, and the program exits with
\* status 0.
C27_AbsentIdWritesNothing ==
    (Exited /\ pre.absent # {})
        => /\ last.code = 0
           /\ \A q \in pre.absent : LinesOf(q) = {}

\* What the program does for an absent id: -w writes nothing, -n writes the
\* line "Node ID not found."; the exit status is 0.
AbsentIdExitsZero ==
    (Exited /\ pre.absent # {})
        => /\ last.code = 0
           /\ "-w" \in pre.absent => LinesOf("-w") = {}
           /\ "-n" \in pre.absent =>
                 \E i \in DOMAIN last.stdout :
                     /\ LinesOf("-n") = {i}
                     /\ last.stdout[i].line = "Node %ld not found."

-----------------------------------------------------------------------------
(* The count PB_read_field returns.                                          *)

\* C28: on success PB_read_field returns the number of bytes it has consumed:
\* the stream position has advanced by the returned count and by nothing
\* more, whatever byte follows the field, 0x07 and 0xFF included.
C28_ReadFieldReturnsBytesConsumed ==
    last.op = "field" /\ crc > 0 => cpos = crc

\* The same where the byte after the field is neither 0x07 nor 0xFF, or the
\* field ends the stream: what the code does deliver.  After one of the two
\* bytes the position is one past the returned count.
ReadFieldConsumesOneMoreAfter7OrFF ==
    last.op = "field" /\ crc > 0 =>
       cpos = crc + (IF Len(cdata) > crc /\ cdata[crc + 1] \in {7, 255} THEN 1 ELSE 0)

-----------------------------------------------------------------------------
(* The list of a message, and the life of its fields and buffers.            *)

\* The nodes of the message: the sentinel and the fields met from it.
Ring(h, m) == {m} \cup {MsgSeq(h, m)[i] : i \in 1 .. Len(MsgSeq(h, m))}

\* Following next from the sentinel comes back to the sentinel.
Closed(h, m) ==
    IF MsgSeq(h, m) = <<>> THEN h[m].next = m
    ELSE h[MsgSeq(h, m)[Len(MsgSeq(h, m))]].next = m

WellFormedList(h, m) ==
    /\ h[m].type = SENTINEL_TYPE
    /\ Closed(h, m)
    /\ \A f \in Ring(h, m) :
          /\ h[f].nfree = 0
          /\ h[f].next # NULL /\ h[f].prev # NULL
          /\ h[h[f].next].prev = f
          /\ h[h[f].prev].next = f
    /\ \A f \in Ring(h, m) \ {m} :
          /\ h[f].type \in 0 .. 5
          /\ h[f].type = LEN_TYPE => h[f].value.size = Len(h[f].value.buf) /\ h[f].bfree = 0

\* Every call of PB_expand_packed_fields so far has returned 0: a call that
\* returns -1 is one that has released the buffer of a field it leaves linked.
AllExpandsReturnedZero ==
    /\ last.op = "expand" => last.rc = 0
    /\ \A f \in Ring(heap, msg) : heap[f].bfree = 0

\* C29: a PB_Message is a well-formed circular doubly-linked list with one
\* sentinel after PB_read_message and after any sequence of calls of
\* PB_expand_packed_fields that return 0: f.next.prev = f and f.prev.next = f
\* for every node, the sentinel included, next from the sentinel leads back to
\* the sentinel, and every field has a wire type in 0 .. 5 and the value of
\* that type.
C29_MessageIsWellFormedList ==
    (last.op # "delete" /\ AllExpandsReturnedZero) => WellFormedList(heap, msg)

\* Two calls have returned 0 and a packed field has been replaced by two
\* fields or more.
C29_Witness ==
    /\ nops = 2
    /\ last.op = "expand"
    /\ AllExpandsReturnedZero
    /\ \E i \in DOMAIN heap : heap[i].nfree = 1
    /\ Len(MsgSeq(heap, msg)) > Len(pre)

\* C30: no LEN buffer is released twice: after any sequence of calls of
\* PB_expand_packed_fields, whatever they return, followed by
\* PB_delete_message, every field and every LEN buffer has been freed exactly
\* once.
C30_EveryBufferFreedOnce ==
    last.op = "delete" => Released(heap)

\* The same after calls that all returned 0: what the code does deliver.
EveryBufferFreedOnceAfterSuccess ==
    (last.op = "delete" /\ \A i \in DOMAIN heap : heap[i].bfree <= heap[i].nfree)
        => Released(heap)

\* A call that returns -1 for a field without a value has released the buffer
\* of that field and left the field in the message: the buffer is released
\* again by the next call for that field and by PB_delete_message.
FailedExpandReleasesTheBuffer ==
    (last.op = "expand" /\ last.rc = -1) =>
        \E f \in Ring(heap, msg) : heap[f].type = LEN_TYPE /\ heap[f].bfree >= 1

=============================================================================
